---- MODULE Spec2Model ----
(***************************************************************************)
(* Electricity-price display appliance: the fetch orchestration of        *)
(* main.cpp (setup, loop, handleClockDrivenUpdates), the Nord Pool fetch   *)
(* pipeline of nordpool_client.cpp, the interval-key codec of              *)
(* time_utils.cpp and the snapshot cache of price_cache.cpp.               *)
(*                                                                         *)
(* Conventions of the model                                                *)
(*  - time_t values are seconds since the epoch, as in the code.  Local    *)
(*    time is UTC + TzOffsetSec, and twice that between DstStart and       *)
(*    DstEnd (the CET/CEST zone of time_utils.cpp).  mktime is modelled    *)
(*    for days in standard time only.                                      *)
(*  - a timestamp string "YYYY-MM-DDTHH:MM:00" is the record               *)
(*    [len, day, hour, min]: len is the string's length, day the number of *)
(*    days since the epoch of its first ten characters, hour and min its   *)
(*    HH and MM digits.  The empty string is EmptyStr.                     *)
(*  - an interval key is the tuple <<day, hour>> (13 characters) or        *)
(*    <<day, hour, minute>> (16 characters); the empty key is <<>>.        *)
(*  - prices are integers in units of 1e-6 currency per kWh.               *)
(*  - one handler (setup, one loop iteration) is one atomic step taken at  *)
(*    one instant: the loop is single-threaded and blocking.               *)
(*  - the flash file system mounts and writes succeed.                     *)
(*  - uint32_t values (millis(), now / 60) stay far below 2^32 within the   *)
(*    modelled uptime of a few days, so unsigned arithmetic is plain.      *)
(***************************************************************************)
EXTENDS Integers, Sequences, FiniteSets, TLC

\* ------------------------------------------------------------ constants
kRetryOnErrorMs == 30000
kRetryDailyIfUnchangedSec == 600
kDailyFetchHour == 13
kDailyFetchMinute == 0
kValidEpochMin == 1700000000
kMaxPoints == 60
kMovingAverageWindowHours == 72
kMaxMovingAverageWindowSamples == kMovingAverageWindowHours * 4
kAvgStoreMagic == 1313885505
kAvgStoreVersion == 2
kDefaultMovingAverageKrPerKwh == 1000000
kMinMovingAverage == 100
kSamePointTolerance == 500
kCacheVersion == 1
DaySec == 24 * 3600
HourSec == 60 * 60
TzOffsetSec == 3600
\* "M3.5.0/2" and "M10.5.0/3" in 2024: 2024-03-31T01:00:00Z and 2024-10-27T01:00:00Z.
DstStart == 1711846800
DstEnd == 1729990800
nordpoolResolutionMinutes == 60

\* ------------------------------------------------------------ bounds
\* Number of clock advances in one behaviour.
MaxTicks == 1
\* Number of boots (power cycles) in one behaviour.
MaxBoots == 2

\* First modelled local midnight after kValidEpochMin: 2023-11-15T00:00 CET.
Day0Start == kValidEpochMin + 2800
\* Wall-clock instants at which the device is first powered.
StartTimes == {Day0Start + 12 * HourSec + 50 * 60}
\* Amounts (seconds) by which the clock advances between handler runs.
TickSteps == {600, DaySec}
\* the minute-tick specification: seconds between two loop iterations, the
\* number of such advances, and its start (12:59:20 local time on day 0)
SecondSteps == {20, 40}
MaxSecondTicks == 3
MinuteStartTimes == {Day0Start + 12 * HourSec + 59 * 60 + 20}
\* the clock-threshold specification: what the system clock reads at power-up
ThresholdStartTimes == {kValidEpochMin - 20, kValidEpochMin - 1, kValidEpochMin, kValidEpochMin + 1}
\* the ingestion specification: consecutive ingestions of one slot list, and
\* the length of the slot lists
MaxIngests == 2
MaxListLen == 3
\* the window specification: the number of ingestions, the number of changes
\* of the configured resolution, the configurable resolutions, and the
\* lengths of the slot lists and their spacing in slots
MaxWindowIngests == 8
MaxSwitches == 1
WindowResolutions == {15, 30, 60}
WindowListLens == {7, 40}
WindowStride == CHOOSE n \in WindowListLens : \A m \in WindowListLens : m <= n
\* the key specification: the resolutions asked for, and the days, hours and
\* minutes of the timestamps
KeyResolutions == {0, 15, 30, 45, 60, 61, 120}
KeyDays == {0, 1}
KeyHours == {0, 13, 23}
KeyMinutes == {0, 14, 15, 29, 30, 44, 45, 59}
\* the timestamp specification: the lengths of the strings that are too short
\* and of those that are long enough but not timestamps
ShortLens == {0, 10, 12}
GarbledLens == {13, 16, 19, 25}
\* the tracker specification: the length of the slot lists, the resolutions
\* and what the clock reads (around the validity threshold, which is 23:13:20
\* local time on the day before day 0, and on day 0 and day 1)
MaxTrackLen == 3
TrackResolutions == {15, 45, 60}
TrackTimes ==
  {kValidEpochMin - 1, kValidEpochMin, kValidEpochMin + 1,
   Day0Start + 12 * HourSec, Day0Start + 12 * HourSec + 50 * 60,
   Day0Start + DaySec + 12 * HourSec}
\* the snapshot specification: the length of the slot lists of the persisted
\* snapshots and what the clock reads at the load
MaxSnapshotLen == 2
SnapshotTimes ==
  {kValidEpochMin - 1, Day0Start + 12 * HourSec, Day0Start + 12 * HourSec + 50 * 60,
   Day0Start + DaySec + 12 * HourSec}
\* the capacity specification: the lengths of the lists handed to the
\* normalizers and the loader, the number of slots held before, and the
\* position of an entry that is skipped (0: none)
CapacityLens == {0, 1, 2, 58, 59, 60, 61, 62, 65}
CapacityHeld == {0, 1, 59, 60}
CapacityGaps == {0, 2, 60, 61}
\* the fetch specification: what the clock reads at the fetch (before the
\* validity threshold, and at noon of day 0 and of day 1), and the raw prices
\* of the answers (0.1 currency/MWh; the last two give a slot price of zero
\* and a negative one)
FetchTimes ==
  {kValidEpochMin - 1, Day0Start + 12 * HourSec, Day0Start + DaySec + 12 * HourSec}
FetchRawPrices == {4000, 9000, -6738, -8000}
\* the recovery specification: the number of advances of the clock, each of
\* the retry interval, during which the upstream may still fail
MaxFailingTicks == 3

\* ------------------------------------------------------------ local time
\* localtime_r: seconds since the epoch to local calendar fields.
TzOffsetAt(t) == IF t >= DstStart /\ t < DstEnd THEN 2 * TzOffsetSec ELSE TzOffsetSec
LocalSec(t) == t + TzOffsetAt(t)
DayOf(t) == LocalSec(t) \div DaySec
HourOf(t) == (LocalSec(t) % DaySec) \div HourSec
MinuteOf(t) == (LocalSec(t) % HourSec) \div 60
\* mktime: local calendar fields (mday may overflow by whole days) to seconds.
MkTime(day, hour, minute, sec) ==
  day * DaySec + hour * HourSec + minute * 60 + sec - TzOffsetSec

EmptyStr == [len |-> 0, day |-> 0, hour |-> 0, min |-> 0]
IsoStr(day, hour, minute) == [len |-> 19, day |-> day, hour |-> hour, min |-> minute]

hasValidClock(now) == now > kValidEpochMin

normalizeResolutionMinutes(r) == IF r = 15 \/ r = 30 \/ r = 60 THEN r ELSE 60

\* strftime "%Y-%m-%d" of a local time: the day number, or -1 for "".
dateKeyFromTime(when) == IF ~hasValidClock(when) THEN -1 ELSE DayOf(when)

\* The first ten characters of a string that are not a date: text that, as
\* a string, sorts after every date.
NonDate == 999999
GarbledStr(len) == [len |-> len, day |-> NonDate, hour |-> 0, min |-> 0]

\* parseUtcIso: at least 19 characters with the separators and digits of
\* "YYYY-MM-DDTHH:MM:SS" in place.
parseUtcIso(iso) == iso.len >= 19 /\ iso.day # NonDate

utcIsoToLocalIsoSlot(utcIso) ==
  IF ~parseUtcIso(utcIso) THEN utcIso
  ELSE LET epochUtc == utcIso.day * DaySec + utcIso.hour * HourSec + utcIso.min * 60
       IN IF epochUtc <= 0 THEN utcIso
          ELSE IsoStr(DayOf(epochUtc), HourOf(epochUtc), MinuteOf(epochUtc))

\* Variant that keeps the minute as it is.
intervalKeyFromIsoNoFloor(iso, resolutionMinutes) ==
  IF iso.len < 13 THEN <<>>
  ELSE IF normalizeResolutionMinutes(resolutionMinutes) >= 60 \/ iso.len < 16
       THEN <<iso.day, iso.hour>>
       ELSE <<iso.day, iso.hour, iso.min>>

intervalKeyFromIso(iso, resolutionMinutes) ==
  IF iso.len < 13 THEN <<>>
  ELSE LET normalizedResolution == normalizeResolutionMinutes(resolutionMinutes)
       IN IF normalizedResolution >= 60 \/ iso.len < 16
          THEN <<iso.day, iso.hour>>
          ELSE <<iso.day, iso.hour, iso.min - (iso.min % normalizedResolution)>>

currentIntervalKey(resolutionMinutes, now) ==
  IF now < 1700000000 THEN <<>>
  ELSE LET normalizedResolution == normalizeResolutionMinutes(resolutionMinutes)
           slotMinute == MinuteOf(now) - (MinuteOf(now) % normalizedResolution)
       IN IF normalizedResolution >= 60
          THEN <<DayOf(now), HourOf(now)>>
          ELSE <<DayOf(now), HourOf(now), slotMinute>>

RECURSIVE FirstIndexWithKey(_, _, _, _)
FirstIndexWithKey(points, intervalKey, resolutionMinutes, i) ==
  IF i > Len(points) THEN -1
  ELSE IF intervalKeyFromIso(points[i].startsAt, resolutionMinutes) = intervalKey
       THEN i - 1
       ELSE FirstIndexWithKey(points, intervalKey, resolutionMinutes, i + 1)

\* Indices are 0-based as in the code; points is a 1-based sequence.
findPricePointIndexForInterval(state, intervalKey, resolutionMinutes) ==
  IF intervalKey = <<>> THEN -1
  ELSE FirstIndexWithKey(state.points, intervalKey, resolutionMinutes, 1)

findCurrentPricePointIndex(state, resolutionMinutes, now) ==
  LET key == currentIntervalKey(resolutionMinutes, now)
  IN IF key = <<>> THEN -1
     ELSE findPricePointIndexForInterval(state, key, resolutionMinutes)

\* Variant that never moves to the following day.
scheduleNextDailyFetchToday(now, hour, minute) ==
  IF now < 1700000000 THEN 0 ELSE MkTime(DayOf(now), hour, minute, 0)

scheduleNextDailyFetch(now, hour, minute) ==
  IF now < 1700000000 THEN 0
  ELSE LET next == MkTime(DayOf(now), hour, minute, 0)
       IN IF next <= now THEN next + 24 * 3600 ELSE next

\* ------------------------------------------------------------ rolling average store
resetStore ==
  [magic |-> kAvgStoreMagic, version |-> kAvgStoreVersion, resolutionMinutes |-> 60,
   windowSamples |-> kMovingAverageWindowHours, count |-> 0, head |-> 0,
   lastSlotKey |-> <<>>, values |-> <<>>]

movingAverageWindowForResolution(resolutionMinutes) ==
  (kMovingAverageWindowHours * 60) \div normalizeResolutionMinutes(resolutionMinutes)

isIntervalKey(value) == Len(value) = 2 \/ Len(value) = 3

\* A file is [exists |-> FALSE] when it is absent (or has the wrong size), else
\* [exists |-> TRUE, data |-> its content].
NoFile == [exists |-> FALSE]
FileOf(content) == [exists |-> TRUE, data |-> content]

\* saveStore, when the file was opened and every byte written: the file holds
\* the bytes of the record.
saveStore(store) == FileOf(store)

\* Variant that takes a full window for a damaged record.
loadStoreChecksRejectsFull(store) ==
  IF store.windowSamples # movingAverageWindowForResolution(store.resolutionMinutes)
  THEN [ok |-> FALSE, store |-> store]
  ELSE IF store.head >= store.windowSamples THEN [ok |-> FALSE, store |-> store]
  ELSE IF store.count >= store.windowSamples THEN [ok |-> FALSE, store |-> store]
  ELSE [ok |-> TRUE, store |-> store]

\* The range checks of loadStore on the store read; result: [ok, store].
loadStoreChecks(store) ==
  IF store.windowSamples # movingAverageWindowForResolution(store.resolutionMinutes)
  THEN [ok |-> FALSE, store |-> store]
  ELSE IF store.windowSamples = 0 \/ store.windowSamples > kMaxMovingAverageWindowSamples
       THEN [ok |-> FALSE, store |-> store]
  ELSE IF store.head >= store.windowSamples THEN [ok |-> FALSE, store |-> store]
  ELSE IF store.count > store.windowSamples THEN [ok |-> FALSE, store |-> store]
  ELSE [ok |-> TRUE, store |-> store]

\* Result: [ok, store].
loadStore(file) ==
  IF ~file.exists THEN [ok |-> FALSE, store |-> resetStore]
  ELSE IF file.data.magic # kAvgStoreMagic \/ file.data.version # kAvgStoreVersion
       THEN [ok |-> FALSE, store |-> file.data]
  ELSE loadStoreChecks([file.data EXCEPT !.resolutionMinutes = normalizeResolutionMinutes(@)])

\* loadMovingAverageStore of nordpool_ma_store.cpp; result: [ok, store].
loadMovingAverageStore(file) ==
  IF ~file.exists THEN [ok |-> FALSE, store |-> resetStore]
  ELSE IF file.data.magic # kAvgStoreMagic \/ file.data.version # kAvgStoreVersion
       THEN [ok |-> FALSE, store |-> file.data]
  ELSE IF file.data.windowSamples = 0
          \/ file.data.windowSamples > kMaxMovingAverageWindowSamples
       THEN [ok |-> FALSE, store |-> file.data]
  ELSE IF file.data.head >= file.data.windowSamples THEN [ok |-> FALSE, store |-> file.data]
  ELSE IF file.data.count > file.data.windowSamples THEN [ok |-> FALSE, store |-> file.data]
  ELSE [ok |-> TRUE, store |-> file.data]

\* values holds the written prefix of the zero-initialised sample array.
ValueAt(store, i) == IF i + 1 <= Len(store.values) THEN store.values[i + 1] ELSE 0

RECURSIVE PadTo(_, _)
PadTo(values, n) == IF Len(values) >= n THEN values ELSE PadTo(Append(values, 0), n)

\* The window addMovingAverageSample writes into.
sampleWindow(store) ==
  IF store.windowSamples = 0 \/ store.windowSamples > kMaxMovingAverageWindowSamples
  THEN kMovingAverageWindowHours ELSE store.windowSamples

\* Variant that lets the cursor run past the window.
writeSampleNoWrap(store, window, padded, value) ==
  [store EXCEPT !.windowSamples = window,
                !.values = [padded EXCEPT ![store.head + 1] = value],
                !.head = store.head + 1,
                !.count = IF store.count < window THEN store.count + 1 ELSE store.count]

\* Variant that keeps the oldest samples once the window is full.
writeSampleKeepsOldest(store, window, padded, value) ==
  IF store.count >= window THEN [store EXCEPT !.head = (store.head + 1) % window]
  ELSE [store EXCEPT !.windowSamples = window,
                     !.values = [padded EXCEPT ![store.head + 1] = value],
                     !.head = (store.head + 1) % window,
                     !.count = store.count + 1]

writeSample(store, window, padded, value) ==
  [store EXCEPT !.windowSamples = window,
                !.values = [padded EXCEPT ![store.head + 1] = value],
                !.head = (store.head + 1) % window,
                !.count = IF store.count < window THEN store.count + 1 ELSE store.count]

addMovingAverageSample(store, value) ==
  writeSample(store, sampleWindow(store), PadTo(store.values, store.head + 1), value)

\* The sum of values[lo..hi], by halves (the loop adds them in index order; in
\* integers the order makes no difference).
RECURSIVE SumRange(_, _, _)
SumRange(store, lo, hi) ==
  IF lo > hi THEN 0
  ELSE IF lo = hi THEN ValueAt(store, lo)
  ELSE SumRange(store, lo, (lo + hi) \div 2) + SumRange(store, (lo + hi) \div 2 + 1, hi)
SumValues(store, n) == SumRange(store, 0, n - 1)

movingAverageValue(store) ==
  IF store.count = 0 THEN 0 ELSE SumValues(store, store.count) \div store.count

\* Variant with the first threshold exclusive.
classifyLevelFromAverageStrict(price, movingAvg) ==
  IF movingAvg <= kMinMovingAverage THEN "UNKNOWN"
  ELSE IF price * 100 < 60 * movingAvg THEN "VERY_CHEAP"
  ELSE IF price * 100 <= 90 * movingAvg THEN "CHEAP"
  ELSE IF price * 100 < 115 * movingAvg THEN "NORMAL"
  ELSE IF price * 100 < 140 * movingAvg THEN "EXPENSIVE"
  ELSE "VERY_EXPENSIVE"

classifyLevelFromAverage(price, movingAvg) ==
  IF movingAvg <= kMinMovingAverage THEN "UNKNOWN"
  ELSE IF price * 100 <= 60 * movingAvg THEN "VERY_CHEAP"
  ELSE IF price * 100 <= 90 * movingAvg THEN "CHEAP"
  ELSE IF price * 100 < 115 * movingAvg THEN "NORMAL"
  ELSE IF price * 100 < 140 * movingAvg THEN "EXPENSIVE"
  ELSE "VERY_EXPENSIVE"

applyLevelsFromMovingAverage(state, movingAvg) ==
  [state EXCEPT !.points =
     [i \in 1..Len(state.points) |->
        [state.points[i] EXCEPT !.level = classifyLevelFromAverage(state.points[i].price, movingAvg)]]]

\* Lexicographic order of two keys as strings (fixed-width, zero-padded fields).
RECURSIVE KeyLeqFrom(_, _, _)
KeyLeqFrom(a, b, i) ==
  IF i > Len(a) THEN TRUE
  ELSE IF i > Len(b) THEN FALSE
  ELSE IF a[i] < b[i] THEN TRUE
  ELSE IF a[i] > b[i] THEN FALSE
  ELSE KeyLeqFrom(a, b, i + 1)
\* Variant that compares strictly: a key equal to the last one counts as new.
KeyLess(a, b) == KeyLeqFrom(a, b, 1) /\ a # b

KeyLeq(a, b) == KeyLeqFrom(a, b, 1)

\* Result: [changed, store].
RECURSIVE HistoryFrom(_, _, _, _)
\* One iteration of the loop of updateHistoryFromPoints, at the point of key pointKey.
\* Variant that appends a new slot without recording its key as processed.
historyStepKeepsKey(state, store, changed, i, pointKey) ==
  IF ~isIntervalKey(pointKey) THEN HistoryFrom(state, store, changed, i + 1)
  ELSE IF isIntervalKey(store.lastSlotKey) /\ KeyLeq(pointKey, store.lastSlotKey)
       THEN HistoryFrom(state, store, changed, i + 1)
  ELSE HistoryFrom(state, addMovingAverageSample(store, state.points[i].price),
                   TRUE, i + 1)

historyStep(state, store, changed, i, pointKey) ==
  IF ~isIntervalKey(pointKey) THEN HistoryFrom(state, store, changed, i + 1)
  ELSE IF isIntervalKey(store.lastSlotKey) /\ KeyLeq(pointKey, store.lastSlotKey)
       THEN HistoryFrom(state, store, changed, i + 1)
  ELSE HistoryFrom(state,
                   [addMovingAverageSample(store, state.points[i].price)
                      EXCEPT !.lastSlotKey = pointKey],
                   TRUE, i + 1)
HistoryFrom(state, store, changed, i) ==
  IF i > Len(state.points) THEN [changed |-> changed, store |-> store]
  ELSE historyStep(state, store, changed, i,
                   intervalKeyFromIso(state.points[i].startsAt, state.resolutionMinutes))
updateHistoryFromPoints(state, store) == HistoryFrom(state, store, FALSE, 1)

\* ------------------------------------------------------------ price state
\* PriceState(): the default-constructed state; count is Len(points).
PriceState ==
  [ok |-> FALSE, error |-> "", source |-> "UNKNOWN", hasRunningAverage |-> FALSE,
   runningAverage |-> 0, currency |-> "SEK", resolutionMinutes |-> 60,
   currentStartsAt |-> EmptyStr, currentLevel |-> "UNKNOWN", currentPrice |-> 0,
   currentIndex |-> -1, points |-> <<>>]

Count(state) == Len(state.points)

\* ------------------------------------------------------------ upstream responses
\* Local hours of the slots the upstream publishes for one delivery day.
SlotHours == <<0, 13>>

\* The UTC deliveryStart string of the slot at local (day, hour).
UtcIso(day, hour) ==
  LET epoch == MkTime(day, hour, 0, 0)
  IN IsoStr(epoch \div DaySec, (epoch % DaySec) \div HourSec, 0)

\* What the upstream answers to the request for one date: a transport or parse
\* failure, 204 no content, or 200 with the first n slots of that date at one raw
\* price (in 0.1 currency units per MWh).
Failed == [status |-> "fail", n |-> 0, raw |-> 0]
NoContent == [status |-> "nocontent", n |-> 0, raw |-> 0]
Full(raw) == [status |-> "ok", n |-> Len(SlotHours), raw |-> raw]
Partial(raw) == [status |-> "ok", n |-> 1, raw |-> raw]
Empty == [status |-> "ok", n |-> 0, raw |-> 0]
Answer(today, tomorrow) == [today |-> today, tomorrow |-> tomorrow]

\* The answers to the two requests (today, tomorrow) of one fetch.
Responses ==
  {Answer(Failed, Failed), Answer(Full(4000), NoContent),
   Answer(Full(4000), Full(4000)), Answer(Full(4002), Full(4000)),
   Answer(Full(4000), Full(9000)), Answer(Partial(4000), Partial(4000))}

\* multiIndexEntries of the answer of kind k to the request for date day.
EntriesOf(k, day) ==
  [i \in 1..k.n |->
     [deliveryStart |-> UtcIso(day, SlotHours[i]), price |-> k.raw, area |-> TRUE]]

\* (1.25 * ore + 84.225) / 100 with the raw price in 0.1 currency/MWh and the
\* result in 1e-6 currency/kWh.
applyCustomPriceFormula(raw) == 125 * raw + 842250

\* Variant without the capacity check.
RECURSIVE AddPointsUnbounded(_, _, _)
AddPointsUnbounded(arr, state, i) ==
  IF i > Len(arr) THEN state
  ELSE IF ~arr[i].area THEN AddPointsUnbounded(arr, state, i + 1)
  ELSE AddPointsUnbounded(arr,
         [state EXCEPT !.points = Append(@,
            [startsAt |-> utcIsoToLocalIsoSlot(arr[i].deliveryStart),
             price |-> applyCustomPriceFormula(arr[i].price),
             level |-> "UNKNOWN"])],
         i + 1)

\* An entry has area when entryPerArea holds a price for the configured area.
RECURSIVE AddPointsFrom(_, _, _)
AddPointsFrom(arr, state, i) ==
  IF i > Len(arr) \/ Count(state) >= kMaxPoints THEN state
  ELSE IF ~arr[i].area THEN AddPointsFrom(arr, state, i + 1)
  ELSE AddPointsFrom(arr,
         [state EXCEPT !.points = Append(@,
            [startsAt |-> utcIsoToLocalIsoSlot(arr[i].deliveryStart),
             price |-> applyCustomPriceFormula(arr[i].price),
             level |-> "UNKNOWN"])],
         i + 1)
addPoints(arr, state) == AddPointsFrom(arr, state, 1)

\* tibber_client.cpp: the price formula, with the raw price in 1e-4 currency/kWh
\* and the result in 1e-6 currency/kWh, and addPoints.
tibber_applyCustomPriceFormula(raw) == 125 * raw + 842250

RECURSIVE tibber_AddPointsFrom(_, _, _)
tibber_AddPointsFrom(arr, state, i) ==
  IF i > Len(arr) \/ Count(state) >= kMaxPoints THEN state
  ELSE tibber_AddPointsFrom(arr,
         [state EXCEPT !.points = Append(@,
            [startsAt |-> arr[i].startsAt,
             price |-> tibber_applyCustomPriceFormula(arr[i].energy),
             level |-> arr[i].level])],
         i + 1)
tibber_addPoints(arr, state) == tibber_AddPointsFrom(arr, state, 1)

\* Result: [ok, out].
fetchDate(k, date, out) ==
  IF k.status = "nocontent" THEN [ok |-> TRUE, out |-> out]
  ELSE IF k.status # "ok" THEN [ok |-> FALSE, out |-> [out EXCEPT !.error = "HTTP GET failed"]]
  ELSE [ok |-> TRUE, out |-> addPoints(EntriesOf(k, date), out)]

assignCurrentAt(out, idx) ==
  IF idx < 0 THEN [out EXCEPT !.currentIndex = idx]
  ELSE [out EXCEPT !.currentIndex = idx,
                   !.currentStartsAt = out.points[idx + 1].startsAt,
                   !.currentPrice = out.points[idx + 1].price]

assignCurrentFromClock(out, now) ==
  assignCurrentAt(out, findCurrentPricePointIndex(out, out.resolutionMinutes, now))

assignCurrentLevel(out) ==
  IF out.currentIndex < 0 \/ out.currentIndex >= Count(out) THEN out
  ELSE [out EXCEPT !.currentLevel = out.points[out.currentIndex + 1].level]

\* applyMovingAverageToState, step by step.  The store loaded, or a fresh one.
storeOrReset(loaded) == IF loaded.ok THEN loaded.store ELSE resetStore

\* Variant that relabels the record and keeps its samples.
storeForResolutionKeepsSamples(store, resolutionMinutes, targetWindow) ==
  [store EXCEPT !.resolutionMinutes = resolutionMinutes, !.windowSamples = targetWindow]

\* The store, reset when it was kept for another resolution or window.
storeForResolution(store, resolutionMinutes, targetWindow) ==
  IF store.resolutionMinutes # resolutionMinutes \/ store.windowSamples # targetWindow
  THEN [resetStore EXCEPT !.resolutionMinutes = resolutionMinutes,
                          !.windowSamples = targetWindow]
  ELSE store

\* Variant that takes the mean as it is.
clampMovingAverageNone(movingAvg) == movingAvg

clampMovingAverage(movingAvg) ==
  IF movingAvg <= kMinMovingAverage THEN kDefaultMovingAverageKrPerKwh ELSE movingAvg

movingAverageOrDefault(store) ==
  clampMovingAverage(IF store.count = 0 THEN kDefaultMovingAverageKrPerKwh
                     ELSE movingAverageValue(store))

withRunningAverage(state, movingAvg) ==
  applyLevelsFromMovingAverage(
    [state EXCEPT !.hasRunningAverage = TRUE, !.runningAverage = movingAvg], movingAvg)

firstPointIfNoCurrent(state) ==
  IF state.currentIndex < 0
  THEN [state EXCEPT !.currentIndex = 0,
                     !.currentStartsAt = state.points[1].startsAt,
                     !.currentPrice = state.points[1].price]
  ELSE state

\* Result: [state, file], from the history update hist = [changed, store].
applyHistoryToState(state, hist, file, now) ==
  [state |-> assignCurrentLevel(firstPointIfNoCurrent(assignCurrentFromClock(
               withRunningAverage(state, movingAverageOrDefault(hist.store)), now))),
   file |-> IF hist.changed THEN FileOf(hist.store) ELSE file]

applyMovingAverageNormalized(state, targetWindow, file, now) ==
  applyHistoryToState(
    state,
    updateHistoryFromPoints(
      state,
      storeForResolution(storeOrReset(loadStore(file)), state.resolutionMinutes, targetWindow)),
    file, now)

\* The history update applyMovingAverageToState makes for a non-empty state:
\* [changed, store].
historyOfState(state0, file) ==
  updateHistoryFromPoints(
    [state0 EXCEPT !.resolutionMinutes = normalizeResolutionMinutes(@)],
    storeForResolution(storeOrReset(loadStore(file)),
                       normalizeResolutionMinutes(state0.resolutionMinutes),
                       movingAverageWindowForResolution(
                         normalizeResolutionMinutes(state0.resolutionMinutes))))

\* Result: [state, file]: the state with tiers and current slot, and the store file.
applyMovingAverageToState(state0, file, now) ==
  IF Count(state0) = 0 THEN [state |-> state0, file |-> file]
  ELSE applyMovingAverageNormalized(
         [state0 EXCEPT !.resolutionMinutes = normalizeResolutionMinutes(@)],
         movingAverageWindowForResolution(normalizeResolutionMinutes(state0.resolutionMinutes)),
         file, now)

\* fetchNordPoolPriceInfo, step by step.  ma = [state, file] of the tier pass.
fetchSucceeded(ma) == [out |-> [ma.state EXCEPT !.ok = TRUE], file |-> ma.file]

\* After both requests, with the buffer out.
fetchClassify(out, file, now) ==
  IF Count(out) = 0 THEN [out |-> [out EXCEPT !.error = "No prices"], file |-> file]
  ELSE fetchSucceeded(applyMovingAverageToState(out, file, now))

\* Variant that gives up when the request for tomorrow fails.
fetchAfterTomorrowStrict(d2, file, now) ==
  IF ~d2.ok THEN [out |-> d2.out, file |-> file]
  ELSE fetchClassify(d2.out, file, now)

\* Variant that leaves the error of the failed request for tomorrow in place.
fetchAfterTomorrowKeepsError(d2, file, now) ==
  IF ~d2.ok /\ Count(d2.out) = 0 THEN [out |-> d2.out, file |-> file]
  ELSE fetchClassify(d2.out, file, now)

\* After the request for tomorrow, d2 = [ok, out].
fetchAfterTomorrow(d2, file, now) ==
  IF ~d2.ok /\ Count(d2.out) = 0 THEN [out |-> d2.out, file |-> file]
  ELSE fetchClassify(IF d2.ok THEN d2.out ELSE [d2.out EXCEPT !.error = ""], file, now)

\* After the request for today, d1 = [ok, out].
fetchAfterToday(d1, k, tomorrow, file, now) ==
  IF ~d1.ok THEN [out |-> d1.out, file |-> file]
  ELSE fetchAfterTomorrow(fetchDate(k, tomorrow, d1.out), file, now)

\* From the reset buffer out0 on.
fetchFromReset(out0, resp, wifi, now, file) ==
  IF ~wifi THEN [out |-> [out0 EXCEPT !.error = "WiFi not connected"], file |-> file]
  ELSE IF now < 1700000000
       THEN [out |-> [out0 EXCEPT !.error = "Clock not synced"], file |-> file]
  ELSE fetchAfterToday(fetchDate(resp.today, DayOf(now), out0), resp.tomorrow,
                       DayOf(now + 24 * 3600), file, now)

\* Result: [out, file]: the fetch buffer and the store file after the fetch.
fetchNordPoolPriceInfo(resp, resolutionMinutes, wifi, now, file) ==
  fetchFromReset(
    [PriceState EXCEPT !.source = "NORDPOOL",
                       !.resolutionMinutes = normalizeResolutionMinutes(resolutionMinutes)],
    resp, wifi, now, file)

\* ------------------------------------------------------------ snapshot cache
\* Variant that writes whatever state it is given.
priceCacheSaveAny(state, file) ==
  [ok |-> TRUE,
   file |-> FileOf([version |-> kCacheVersion, source |-> state.source,
                    currency |-> state.currency,
                    resolutionMinutes |-> state.resolutionMinutes,
                    hasRunningAverage |-> state.hasRunningAverage,
                    runningAverage |-> state.runningAverage,
                    points |-> state.points])]

\* Result: [ok, file].
priceCacheSave(state, file) ==
  IF ~state.ok \/ Count(state) = 0 THEN [ok |-> FALSE, file |-> file]
  ELSE [ok |-> TRUE,
        file |-> FileOf([version |-> kCacheVersion, source |-> state.source,
                         currency |-> state.currency,
                         resolutionMinutes |-> state.resolutionMinutes,
                         hasRunningAverage |-> state.hasRunningAverage,
                         runningAverage |-> state.runningAverage,
                         points |-> state.points])]

applyCurrentFromIndex(state, idx) ==
  IF idx < 0 \/ idx >= Count(state) THEN state
  ELSE [state EXCEPT !.currentIndex = idx,
                     !.currentStartsAt = state.points[idx + 1].startsAt,
                     !.currentLevel = state.points[idx + 1].level,
                     !.currentPrice = state.points[idx + 1].price]

RECURSIVE LoadPointsFrom(_, _, _)
LoadPointsFrom(items, acc, i) ==
  IF i > Len(items) \/ Len(acc) >= kMaxPoints THEN acc
  ELSE IF items[i].startsAt.len = 0 THEN LoadPointsFrom(items, acc, i + 1)
  ELSE LoadPointsFrom(items, Append(acc, items[i]), i + 1)

\* Variant that falls back to the first slot in both modes.
cacheSelectCurrentLenient(out, found, requireCurrentHour) ==
  [ok |-> TRUE,
   out |-> [applyCurrentFromIndex(out, IF found < 0 THEN 0 ELSE found) EXCEPT !.ok = TRUE]]

\* priceCacheLoadInternal once the points are read: found is the index of the
\* current slot.  Result: [ok, out].
cacheSelectCurrent(out, found, requireCurrentHour) ==
  IF found < 0 /\ requireCurrentHour THEN [ok |-> FALSE, out |-> out]
  ELSE [ok |-> TRUE,
        out |-> [applyCurrentFromIndex(out, IF found < 0 THEN 0 ELSE found) EXCEPT !.ok = TRUE]]

cachePointsLoaded(out, requireCurrentHour, now) ==
  IF Count(out) = 0 THEN [ok |-> FALSE, out |-> out]
  ELSE cacheSelectCurrent(out, findCurrentPricePointIndex(out, out.resolutionMinutes, now),
                          requireCurrentHour)

cacheDocument(doc, requireCurrentHour, now) ==
  cachePointsLoaded([PriceState EXCEPT !.source = doc.source,
                                       !.currency = doc.currency,
                                       !.resolutionMinutes = doc.resolutionMinutes,
                                       !.hasRunningAverage = doc.hasRunningAverage,
                                       !.runningAverage = doc.runningAverage,
                                       !.points = LoadPointsFrom(doc.points, <<>>, 1)],
                    requireCurrentHour, now)

\* Result: [ok, out].
priceCacheLoadInternal(expectedSource, requireCurrentHour, file, now) ==
  IF ~file.exists THEN [ok |-> FALSE, out |-> PriceState]
  ELSE IF file.data.version # kCacheVersion THEN [ok |-> FALSE, out |-> PriceState]
  ELSE IF expectedSource # "" /\ file.data.source # expectedSource
       THEN [ok |-> FALSE, out |-> [PriceState EXCEPT !.source = file.data.source]]
  ELSE cacheDocument(file.data, requireCurrentHour, now)

priceCacheLoadIfCurrent(expectedSource, file, now) ==
  priceCacheLoadInternal(expectedSource, TRUE, file, now)

priceCacheLoadIfAvailable(expectedSource, file, now) ==
  priceCacheLoadInternal(expectedSource, FALSE, file, now)

\* ------------------------------------------------------------ main.cpp: pure helpers
activeSourceLabel == "NORDPOOL"

RECURSIVE ContainsDateFrom(_, _, _)
ContainsDateFrom(points, dateKey, i) ==
  IF i > Len(points) THEN FALSE
  ELSE IF points[i].startsAt.len >= 10 /\ points[i].startsAt.day = dateKey THEN TRUE
  ELSE ContainsDateFrom(points, dateKey, i + 1)

\* dateKey is a day number; -1 stands for a string that is not 10 characters long.
stateContainsDate(state, dateKey) ==
  IF ~state.ok \/ Count(state) = 0 \/ dateKey = -1 THEN FALSE
  ELSE ContainsDateFrom(state.points, dateKey, 1)

\* time_utils.cpp keeps its own copies, parameterised by the fetch time and the
\* smallest valid epoch.
isValidClock(now, validEpochMin) == now > validEpochMin

timeUtils_dateKeyFromTime(when, validEpochMin) ==
  IF ~isValidClock(when, validEpochMin) THEN -1 ELSE DayOf(when)

timeUtils_stateContainsDate(state, dateKey) ==
  IF ~state.ok \/ Count(state) = 0 \/ dateKey = -1 THEN FALSE
  ELSE ContainsDateFrom(state.points, dateKey, 1)

\* The checks on tomorrow's midnight and its date key.
timeUtils_missingTomorrow(state, tomorrow, tomorrowDate, validEpochMin) ==
  IF ~isValidClock(tomorrow, validEpochMin) THEN FALSE
  ELSE IF tomorrowDate = -1 THEN FALSE
  ELSE ~timeUtils_stateContainsDate(state, tomorrowDate)

timeUtils_shouldCatchUpMissedDailyUpdate(now, state, dailyFetchHour, dailyFetchMinute, validEpochMin) ==
  IF ~isValidClock(now, validEpochMin) THEN FALSE
  ELSE IF now < MkTime(DayOf(now), dailyFetchHour, dailyFetchMinute, 0) THEN FALSE
  ELSE timeUtils_missingTomorrow(
         state, MkTime(DayOf(now) + 1, 0, 0, 0),
         timeUtils_dateKeyFromTime(MkTime(DayOf(now) + 1, 0, 0, 0), validEpochMin),
         validEpochMin)

\* Variant that needs the fetch time to have passed strictly.
shouldCatchUpAfterFetchTime(now, state) ==
  IF ~hasValidClock(now) THEN FALSE
  ELSE IF now <= MkTime(DayOf(now), kDailyFetchHour, kDailyFetchMinute, 0) THEN FALSE
  ELSE ~stateContainsDate(state, dateKeyFromTime(MkTime(DayOf(now) + 1, 0, 0, 0)))

shouldCatchUpMissedDailyUpdate(now, state) ==
  IF ~hasValidClock(now) THEN FALSE
  ELSE LET todayFetchTime == MkTime(DayOf(now), kDailyFetchHour, kDailyFetchMinute, 0)
           tomorrow == MkTime(DayOf(now) + 1, 0, 0, 0)
           tomorrowDate == dateKeyFromTime(tomorrow)
       IN IF todayFetchTime = -1 \/ now < todayFetchTime THEN FALSE
          ELSE IF ~hasValidClock(tomorrow) THEN FALSE
          ELSE IF tomorrowDate = -1 THEN FALSE
          ELSE ~stateContainsDate(state, tomorrowDate)

Abs(x) == IF x < 0 THEN -x ELSE x

\* Variant that compares the prices exactly.
isSamePointExact(lhs, rhs) ==
  lhs.startsAt = rhs.startsAt /\ lhs.level = rhs.level /\ lhs.price = rhs.price

isSamePoint(lhs, rhs) ==
  lhs.startsAt = rhs.startsAt /\ lhs.level = rhs.level
  /\ Abs(lhs.price - rhs.price) < kSamePointTolerance

hasNewPriceInfo(fetched, current) ==
  IF ~fetched.ok \/ Count(fetched) = 0 THEN FALSE
  ELSE IF ~current.ok \/ Count(current) = 0 THEN TRUE
  ELSE IF Count(fetched) # Count(current) THEN TRUE
  ELSE \E i \in 1..Count(fetched) : ~isSamePoint(fetched.points[i], current.points[i])

\* Counts the points whose day differs from the day of the previous dated point.
RECURSIVE DayCountFrom(_, _, _, _)
DayCountFrom(points, lastDay, uniqueDays, i) ==
  IF i > Len(points) THEN uniqueDays
  ELSE IF points[i].startsAt.len < 10 THEN DayCountFrom(points, lastDay, uniqueDays, i + 1)
  ELSE IF points[i].startsAt.day # lastDay
       THEN DayCountFrom(points, points[i].startsAt.day, uniqueDays + 1, i + 1)
  ELSE DayCountFrom(points, lastDay, uniqueDays, i + 1)

dayCount(state) ==
  IF ~state.ok \/ Count(state) = 0 THEN 0 ELSE DayCountFrom(state.points, -1, 0, 1)

\* Variant that compares the slot counts only.
wouldReduceCoverageByCount(fetched, current) ==
  IF ~fetched.ok \/ ~current.ok \/ Count(current) = 0 THEN FALSE
  ELSE Count(fetched) < Count(current)

wouldReduceCoverage(fetched, current) ==
  IF ~fetched.ok \/ ~current.ok \/ Count(current) = 0 THEN FALSE
  ELSE IF Count(fetched) < Count(current) THEN TRUE
  ELSE dayCount(fetched) < dayCount(current)

\* ------------------------------------------------------------ main.cpp: globals
\* The globals of main.cpp, the two persisted files and the record of what the
\* running handler has done, as one record m that each function transforms:
\*   gState, gFetchBuffer, gLastFetchMs, gNextDailyFetch, gLastMinuteTick,
\*   gPendingCatchUpRecheck, gNeedsOnlineInit, cacheFile, maFile, ev.
\* ev observes the running handler.  It counts its calls (fetches, draws,
\* successful cache saves, catch-up evaluations and those that were true, online
\* inits, clock syncs, slot re-selections); restored tells that the iteration
\* found WiFi down and reconnected.  For the daily trigger it keeps the held
\* state and the two files as they were when the trigger fired, and the draws
\* and saves of the trigger alone; order lists the parts of
\* handleClockDrivenUpdates ("recheck", "reselect", "trigger") in the order in
\* which they ran; for fetchAndRender it keeps the held state
\* before the call, the result fetched and the held state after the call.
NoEvents ==
  [handler |-> "none", fetches |-> 0, draws |-> 0, saves |-> 0, catchUpEvals |-> 0,
   catchUpHits |-> 0, onlineInits |-> 0, clockSyncs |-> 0, reselects |-> 0,
   restored |-> FALSE, order |-> <<>>, samples |-> <<>>, store |-> resetStore,
   accepted |-> {}, keys |-> <<>>, written |-> NoFile,
   answer |-> Answer(Failed, Failed),
   daily |-> FALSE, held |-> PriceState, heldCache |-> NoFile, heldStore |-> NoFile,
   fetched |-> PriceState,
   dailyDraws |-> 0, dailySaves |-> 0,
   renders |-> 0, renderHeld |-> PriceState, renderFetched |-> PriceState,
   renderAfter |-> PriceState]

displayDrawPrices(m) == [m EXCEPT !.ev.draws = @ + 1]

scheduleDailyFetch(m, now) ==
  [m EXCEPT !.gNextDailyFetch = scheduleNextDailyFetch(now, kDailyFetchHour, kDailyFetchMinute)]

\* Variant in which a failed fetch always replaces the held state.
adoptFetchedAlways(m, fetched, saved) ==
  IF fetched.ok
  THEN [m EXCEPT !.gState = fetched, !.cacheFile = saved.file,
                 !.ev.saves = IF saved.ok THEN @ + 1 ELSE @]
  ELSE [m EXCEPT !.gState = fetched]

\* Variant in which a failed fetch leaves a held state with data untouched.
adoptFetchedKeepError(m, fetched, saved) ==
  IF fetched.ok
  THEN [m EXCEPT !.gState = fetched, !.cacheFile = saved.file,
                 !.ev.saves = IF saved.ok THEN @ + 1 ELSE @]
  ELSE IF Count(m.gState) > 0 THEN m ELSE [m EXCEPT !.gState = fetched]

\* Variant in which the fetched state takes over the label of the held state
\* before it is saved.
adoptFetchedKeepsLabel(m, fetched, saved) ==
  IF fetched.ok
  THEN [m EXCEPT !.gState = [fetched EXCEPT !.source = m.gState.source],
                 !.cacheFile = priceCacheSave([fetched EXCEPT !.source = m.gState.source],
                                              m.cacheFile).file,
                 !.ev.saves = IF saved.ok THEN @ + 1 ELSE @]
  ELSE IF Count(m.gState) > 0
       THEN [m EXCEPT !.gState.error = fetched.error]
       ELSE [m EXCEPT !.gState = fetched]

\* gState after applyFetchedState; saved = [ok, file] is the outcome of
\* priceCacheSave, which runs when the fetch succeeded.
adoptFetched(m, fetched, saved) ==
  IF fetched.ok
  THEN [m EXCEPT !.gState = fetched, !.cacheFile = saved.file,
                 !.ev.saves = IF saved.ok THEN @ + 1 ELSE @]
  ELSE IF Count(m.gState) > 0
       THEN [m EXCEPT !.gState.error = fetched.error]
       ELSE [m EXCEPT !.gState = fetched]

applyFetchedState(m, fetched, millis) ==
  [displayDrawPrices(adoptFetched(m, fetched, priceCacheSave(fetched, m.cacheFile)))
     EXCEPT !.gLastFetchMs = millis]

\* f = [out, file] is the outcome of fetchNordPoolPriceInfo.
storeFetch(m, f) ==
  [m EXCEPT !.gFetchBuffer = f.out, !.maFile = f.file, !.ev.fetches = @ + 1]

\* The fetch into gFetchBuffer, with the store file it may rewrite.
FetchInto(m, resp, wifi, now) ==
  storeFetch(m, fetchNordPoolPriceInfo(resp, nordpoolResolutionMinutes, wifi, now, m.maFile))

\* m before fetchAndRender, m1 after its fetch, m2 after its applyFetchedState.
observeRender(m, m1, m2) ==
  [m2 EXCEPT !.ev.renders = @ + 1, !.ev.renderHeld = m.gState,
             !.ev.renderFetched = m1.gFetchBuffer, !.ev.renderAfter = m2.gState]

renderFetchBuffer(m, m1, millis) ==
  observeRender(m, m1, applyFetchedState(m1, m1.gFetchBuffer, millis))

fetchAndRender(m, resp, wifi, now, millis) ==
  renderFetchBuffer(m, FetchInto(m, resp, wifi, now), millis)

\* Variant that writes every adopted snapshot back to the cache.
adoptCacheStateAlwaysSaves(m, cacheState, saveBackToCache, saved) ==
  [m EXCEPT !.gState = cacheState, !.cacheFile = saved.file,
            !.ev.saves = IF saved.ok THEN @ + 1 ELSE @]

adoptCacheState(m, cacheState, saveBackToCache, saved) ==
  IF saveBackToCache
  THEN [m EXCEPT !.gState = cacheState, !.cacheFile = saved.file,
                 !.ev.saves = IF saved.ok THEN @ + 1 ELSE @]
  ELSE [m EXCEPT !.gState = cacheState]

applyLoadedCacheState(m, cacheState, saveBackToCache) ==
  [displayDrawPrices(adoptCacheState(m, cacheState, saveBackToCache,
                                     priceCacheSave(cacheState, m.cacheFile)))
     EXCEPT !.gPendingCatchUpRecheck = TRUE]

\* Variant that never moves the current slot.
selectCurrentPointKeep(m, idx) == m

\* Variant that moves the index and leaves the copied fields as they were.
selectCurrentPointIndexOnly(m, idx) ==
  IF idx < 0 \/ idx = m.gState.currentIndex THEN m
  ELSE displayDrawPrices([m EXCEPT !.gState.currentIndex = idx])

selectCurrentPoint(m, idx) ==
  IF idx < 0 \/ idx = m.gState.currentIndex THEN m
  ELSE displayDrawPrices(
         [m EXCEPT !.gState.currentIndex = idx,
                   !.gState.currentStartsAt = m.gState.points[idx + 1].startsAt,
                   !.gState.currentLevel = m.gState.points[idx + 1].level,
                   !.gState.currentPrice = m.gState.points[idx + 1].price])

updateCurrentHourFromClock(m, now) ==
  IF ~m.gState.ok \/ Count(m.gState) = 0 THEN m
  ELSE selectCurrentPoint(m, findCurrentPricePointIndex(m.gState, nordpoolResolutionMinutes, now))

\* The outcome hit of one evaluation of shouldCatchUpMissedDailyUpdate, observed.
observeCatchUp(m, hit) ==
  [m EXCEPT !.ev.catchUpEvals = @ + 1, !.ev.catchUpHits = IF hit THEN @ + 1 ELSE @]

\* handleClockDrivenUpdates: the deferred catch-up recheck.
catchUpRecheckResult(m, hit, now) ==
  [observeCatchUp(m, hit) EXCEPT !.gPendingCatchUpRecheck = FALSE,
                                 !.gNextDailyFetch = IF hit THEN now ELSE @,
                                 !.ev.order = Append(@, "recheck")]

catchUpRecheck(m, now) ==
  IF m.gPendingCatchUpRecheck
  THEN catchUpRecheckResult(m, shouldCatchUpMissedDailyUpdate(now, m.gState), now)
  ELSE m

\* Variant that re-selects the slot on every call (level-triggered).
minuteTickUpdateAlways(m, minuteTick, now) ==
  updateCurrentHourFromClock(
    [m EXCEPT !.gLastMinuteTick = minuteTick, !.ev.reselects = @ + 1,
              !.ev.order = Append(@, "reselect")], now)

\* handleClockDrivenUpdates: the minute tick.
minuteTickUpdate(m, minuteTick, now) ==
  IF minuteTick # m.gLastMinuteTick
  THEN updateCurrentHourFromClock(
         [m EXCEPT !.gLastMinuteTick = minuteTick, !.ev.reselects = @ + 1,
                   !.ev.order = Append(@, "reselect")], now)
  ELSE m

\* handleClockDrivenUpdates: the first scheduling.
scheduleIfUnset(m, now) ==
  IF m.gNextDailyFetch = 0 THEN scheduleDailyFetch(m, now) ELSE m

\* Variant that runs the minute tick before the catch-up recheck.
clockDrivenPrefixTickFirst(m, now) ==
  scheduleIfUnset(catchUpRecheck(minuteTickUpdate(m, now \div 60, now), now), now)

\* handleClockDrivenUpdates up to the daily trigger check (catch-up recheck,
\* minute tick, first scheduling).
clockDrivenPrefix(m, now) ==
  scheduleIfUnset(minuteTickUpdate(catchUpRecheck(m, now), now \div 60, now), now)

dailyFetchDue(m, now) == m.gNextDailyFetch # 0 /\ now >= m.gNextDailyFetch

\* Variant in which an unchanged result leaves the trigger time as it was.
dailyFetchDecisionNoRetry(m1, fetched, now, millis) ==
  IF ~fetched.ok
  THEN [applyFetchedState(m1, fetched, millis)
          EXCEPT !.gNextDailyFetch = now + kRetryDailyIfUnchangedSec]
  ELSE IF wouldReduceCoverage(fetched, m1.gState)
       THEN [m1 EXCEPT !.gNextDailyFetch = now + kRetryDailyIfUnchangedSec]
  ELSE IF hasNewPriceInfo(fetched, m1.gState)
       THEN scheduleDailyFetch(applyFetchedState(m1, fetched, millis), now)
  ELSE m1

\* The daily trigger after its fetch: m1 holds the result in gFetchBuffer.
dailyFetchDecision(m1, fetched, now, millis) ==
  IF ~fetched.ok
  THEN [applyFetchedState(m1, fetched, millis)
          EXCEPT !.gNextDailyFetch = now + kRetryDailyIfUnchangedSec]
  ELSE IF wouldReduceCoverage(fetched, m1.gState)
       THEN [m1 EXCEPT !.gNextDailyFetch = now + kRetryDailyIfUnchangedSec]
  ELSE IF hasNewPriceInfo(fetched, m1.gState)
       THEN scheduleDailyFetch(applyFetchedState(m1, fetched, millis), now)
  ELSE [m1 EXCEPT !.gNextDailyFetch = now + kRetryDailyIfUnchangedSec]

dailyFetchApply(m1, now, millis) == dailyFetchDecision(m1, m1.gFetchBuffer, now, millis)

\* m before the daily trigger, m2 after it.
observeDaily(m, m2) ==
  [m2 EXCEPT !.ev.dailyDraws = m2.ev.draws - m.ev.draws,
             !.ev.dailySaves = m2.ev.saves - m.ev.saves]

\* The body of the daily trigger of handleClockDrivenUpdates.
dailyFetchTrigger(m, now, resp, wifi, millis) ==
  observeDaily(m,
    dailyFetchApply(
      FetchInto([m EXCEPT !.ev.daily = TRUE, !.ev.held = m.gState,
                          !.ev.heldCache = m.cacheFile, !.ev.heldStore = m.maFile,
                          !.ev.order = Append(@, "trigger")],
                resp, wifi, now),
      now, millis))

dailyFetchIfDue(p, now, resp, wifi, millis) ==
  IF dailyFetchDue(p, now) THEN dailyFetchTrigger(p, now, resp, wifi, millis) ELSE p

handleClockDrivenUpdates(m, now, resp, wifi, millis) ==
  IF ~hasValidClock(now) THEN m
  ELSE dailyFetchIfDue(clockDrivenPrefix(m, now), now, resp, wifi, millis)

\* setup(): wifiConnected is the result of wifiConnectWithConfigPortal, now the
\* clock after syncClockForSelectedArea.
setupOffline(m, offline) ==
  IF offline.ok
  THEN displayDrawPrices([m EXCEPT !.gState = [offline.out EXCEPT !.source = "no wifi"],
                                   !.gNeedsOnlineInit = TRUE])
  ELSE displayDrawPrices([m EXCEPT !.gState.ok = FALSE,
                                   !.gState.source = "no wifi",
                                   !.gState.error = "no wifi",
                                   !.gNeedsOnlineInit = TRUE])

\* setup(): the catch-up evaluation after a cache load.
setupCatchUpResult(m, hit, now) ==
  [observeCatchUp(m, hit) EXCEPT !.gNextDailyFetch = IF hit THEN now ELSE @,
                                 !.gPendingCatchUpRecheck = IF hit THEN FALSE ELSE @]

setupCatchUp(m, now) ==
  setupCatchUpResult(m, shouldCatchUpMissedDailyUpdate(now, m.gState), now)

\* strict and lenient are the outcomes of priceCacheLoadIfCurrent and
\* priceCacheLoadIfAvailable.
setupOnline(m, strict, lenient, now, resp, millis) ==
  IF strict.ok THEN setupCatchUp(applyLoadedCacheState(m, strict.out, TRUE), now)
  ELSE IF lenient.ok THEN setupCatchUp(applyLoadedCacheState(m, lenient.out, FALSE), now)
  ELSE fetchAndRender(m, resp, TRUE, now, millis)

setup(m, wifiConnected, now, resp, millis) ==
  IF ~wifiConnected
  THEN setupOffline(m, priceCacheLoadIfAvailable(activeSourceLabel, m.cacheFile, now))
  ELSE setupOnline(scheduleDailyFetch([m EXCEPT !.ev.clockSyncs = @ + 1], now),
                   priceCacheLoadIfCurrent(activeSourceLabel, m.cacheFile, now),
                   priceCacheLoadIfAvailable(activeSourceLabel, m.cacheFile, now),
                   now, resp, millis)

\* loop() when WiFi is down and wifiReconnect fails.
markNoWifiError(m, needsRedraw) ==
  IF needsRedraw
  THEN displayDrawPrices([m EXCEPT !.gState.source = "no wifi", !.gState.error = "no wifi"])
  ELSE [m EXCEPT !.gState.source = "no wifi", !.gState.error = "no wifi"]

\* Variant that marks the held state as failed whenever WiFi is down.
loopDisconnectedFailsState(m) ==
  displayDrawPrices([m EXCEPT !.gState.ok = FALSE, !.gState.source = "no wifi",
                              !.gState.error = "no wifi"])

\* Variant that writes the error text whether or not the held state is ok.
loopDisconnectedMarksError(m) ==
  markNoWifiError(m, m.gState.source # "no wifi" \/ m.gState.error # "no wifi")

loopDisconnected(m) ==
  IF m.gState.ok
  THEN IF m.gState.source # "no wifi"
       THEN displayDrawPrices([m EXCEPT !.gState.source = "no wifi"])
       ELSE m
  ELSE markNoWifiError(m, m.gState.source # "no wifi" \/ m.gState.error # "no wifi")

\* loop(): the one-time online initialisation.
onlineInit(m, now, resp, millis) ==
  IF m.gNeedsOnlineInit
  THEN fetchAndRender(
         scheduleDailyFetch([m EXCEPT !.gNeedsOnlineInit = FALSE,
                                      !.ev.onlineInits = @ + 1,
                                      !.ev.clockSyncs = @ + 1], now),
         resp, TRUE, now, millis)
  ELSE m

\* Variant that retries only after more than the retry interval.
errorRetryDueStrict(m, millis) ==
  ~m.gState.ok /\ millis - m.gLastFetchMs > kRetryOnErrorMs

\* loop(): the condition of the retry after a failed fetch.
errorRetryDue(m, millis) ==
  ~m.gState.ok /\ millis - m.gLastFetchMs >= kRetryOnErrorMs

\* loop(): the retry after a failed fetch.
errorRetry(m, now, resp, millis) ==
  IF errorRetryDue(m, millis)
  THEN fetchAndRender(m, resp, TRUE, now, millis)
  ELSE m

\* loop() with WiFi connected, up to the call of handleClockDrivenUpdates.
loopOnline(m, now, resp, millis) ==
  errorRetry(onlineInit(m, now, resp, millis), now, resp, millis)

\* loop(): connected is WiFi.status() == WL_CONNECTED after wifiReconnect.
loop(m, connected, now, resp1, resp2, millis) ==
  IF ~connected THEN loopDisconnected(m)
  ELSE handleClockDrivenUpdates(loopOnline(m, now, resp1, millis), now, resp2, TRUE, millis)

\* ------------------------------------------------------------ state machine
VARIABLES
  pc,                      \* "boot" before setup() has run, "run" afterwards
  now,                     \* true wall-clock time, seconds since the epoch
  bootAt,                  \* wall-clock time of the last power-up
  clock,                   \* system clock: "unset", "pending" (SNTP started), "synced"
  wifi,                    \* WiFi.status() == WL_CONNECTED
  ticks, boots,            \* clock advances and boots so far
  gState, gLastFetchMs, gNextDailyFetch, gLastMinuteTick,
  gPendingCatchUpRecheck, gNeedsOnlineInit,
  cacheFile,               \* /price_cache.json
  maFile,                  \* /nordpool_ma.bin
  ev                       \* what the last handler did

vars == <<pc, now, bootAt, clock, wifi, ticks, boots, gState, gLastFetchMs,
          gNextDailyFetch, gLastMinuteTick, gPendingCatchUpRecheck, gNeedsOnlineInit,
          cacheFile, maFile, ev>>

\* The globals as one record, with ev cleared for the handler that starts.
\* gFetchBuffer is dead between handlers (fetchNordPoolPriceInfo resets every
\* field before any is read), so it is not kept as a variable: a handler starts
\* with it cleared and ev.fetched keeps what the handler last fetched.
Globals(handler) ==
  [gState |-> gState, gFetchBuffer |-> PriceState, gLastFetchMs |-> gLastFetchMs,
   gNextDailyFetch |-> gNextDailyFetch, gLastMinuteTick |-> gLastMinuteTick,
   gPendingCatchUpRecheck |-> gPendingCatchUpRecheck,
   gNeedsOnlineInit |-> gNeedsOnlineInit, cacheFile |-> cacheFile, maFile |-> maFile,
   ev |-> [NoEvents EXCEPT !.handler = handler]]

Commit(m) ==
  /\ gState' = m.gState
  /\ gLastFetchMs' = m.gLastFetchMs
  /\ gNextDailyFetch' = m.gNextDailyFetch
  /\ gLastMinuteTick' = m.gLastMinuteTick
  /\ gPendingCatchUpRecheck' = m.gPendingCatchUpRecheck
  /\ gNeedsOnlineInit' = m.gNeedsOnlineInit
  /\ cacheFile' = m.cacheFile
  /\ maFile' = m.maFile
  /\ ev' = [m.ev EXCEPT !.fetched = m.gFetchBuffer]

\* time(nullptr): the wall clock once synced, seconds since power-up before.
TimeOf(c) == IF c = "synced" THEN now ELSE now - bootAt
\* millis(): milliseconds since power-up
Millis == (now - bootAt) * 1000
\* syncClock(): SNTP is started; the wait ends with the clock set or not.
ClockAfterSync(synced) == IF synced \/ clock = "synced" THEN "synced" ELSE "pending"

\* The response argument of a handler that makes no fetch.
NoResponse == Answer(Failed, Failed)

Init ==
  /\ pc = "boot"
  /\ now \in StartTimes
  /\ bootAt = now
  /\ clock = "unset"
  /\ wifi = FALSE
  /\ ticks = 0
  /\ boots = 1
  /\ gState = PriceState
  /\ gLastFetchMs = 0
  /\ gNextDailyFetch = 0
  /\ gLastMinuteTick = 0
  /\ gPendingCatchUpRecheck = FALSE
  /\ gNeedsOnlineInit = FALSE
  /\ cacheFile = NoFile
  /\ maFile = NoFile
  /\ ev = NoEvents

Setup ==
  /\ pc = "boot"
  /\ \E wifiConnected \in BOOLEAN :
       \E synced \in (IF wifiConnected THEN BOOLEAN ELSE {FALSE}) :
         LET c == IF wifiConnected THEN ClockAfterSync(synced) ELSE clock
             t == TimeOf(c)
             needsFetch == wifiConnected
                           /\ ~priceCacheLoadIfAvailable(activeSourceLabel, cacheFile, t).ok
         IN \E resp \in (IF needsFetch THEN Responses ELSE {NoResponse}) :
              /\ Commit(setup(Globals("setup"), wifiConnected, t, resp, Millis))
              /\ wifi' = wifiConnected
              /\ clock' = c
  /\ pc' = "run"
  /\ UNCHANGED <<now, bootAt, ticks, boots>>

Loop ==
  /\ pc = "run"
  /\ \E reconnected \in (IF wifi THEN {TRUE} ELSE BOOLEAN) :
       \E synced \in (IF reconnected /\ gNeedsOnlineInit THEN BOOLEAN ELSE {FALSE}) :
         LET c == IF reconnected /\ gNeedsOnlineInit THEN ClockAfterSync(synced) ELSE clock
             t == TimeOf(c)
             m == [Globals("loop") EXCEPT !.ev.restored = ~wifi /\ reconnected]
             fetch1 == reconnected
                       /\ (gNeedsOnlineInit
                           \/ (~gState.ok /\ Millis - gLastFetchMs >= kRetryOnErrorMs))
         IN \E resp1 \in (IF fetch1 THEN Responses ELSE {NoResponse}) :
              LET fetch2 == reconnected /\ hasValidClock(t)
                            /\ dailyFetchDue(clockDrivenPrefix(loopOnline(m, t, resp1, Millis), t), t)
              IN \E resp2 \in (IF fetch2 THEN Responses ELSE {NoResponse}) :
                   /\ Commit(loop(m, reconnected, t, resp1, resp2, Millis))
                   /\ wifi' = reconnected
                   /\ clock' = c
  /\ UNCHANGED <<pc, now, bootAt, ticks, boots>>

\* Time passes between two handler runs.
Tick ==
  /\ ticks < MaxTicks
  /\ \E d \in TickSteps : now' = now + d
  /\ ticks' = ticks + 1
  /\ ev' = [NoEvents EXCEPT !.handler = "tick"]
  /\ UNCHANGED <<pc, bootAt, clock, wifi, boots, gState, gLastFetchMs,
                 gNextDailyFetch, gLastMinuteTick, gPendingCatchUpRecheck,
                 gNeedsOnlineInit, cacheFile, maFile>>

\* The access point or the uplink goes away.
WifiLost ==
  /\ pc = "run"
  /\ wifi
  /\ wifi' = FALSE
  /\ ev' = [NoEvents EXCEPT !.handler = "wifiLost"]
  /\ UNCHANGED <<pc, now, bootAt, clock, ticks, boots, gState, gLastFetchMs,
                 gNextDailyFetch, gLastMinuteTick, gPendingCatchUpRecheck,
                 gNeedsOnlineInit, cacheFile, maFile>>

\* SNTP, started by an earlier syncClock(), sets the clock in the background.
SntpSync ==
  /\ clock = "pending"
  /\ wifi
  /\ clock' = "synced"
  /\ ev' = [NoEvents EXCEPT !.handler = "sntp"]
  /\ UNCHANGED <<pc, now, bootAt, wifi, ticks, boots, gState, gLastFetchMs,
                 gNextDailyFetch, gLastMinuteTick, gPendingCatchUpRecheck,
                 gNeedsOnlineInit, cacheFile, maFile>>

\* Power cycle: RAM and the clock are lost, the two files survive.
Reboot ==
  /\ pc = "run"
  /\ boots < MaxBoots
  /\ pc' = "boot"
  /\ boots' = boots + 1
  /\ bootAt' = now
  /\ clock' = "unset"
  /\ wifi' = FALSE
  /\ gState' = PriceState
  /\ gLastFetchMs' = 0
  /\ gNextDailyFetch' = 0
  /\ gLastMinuteTick' = 0
  /\ gPendingCatchUpRecheck' = FALSE
  /\ gNeedsOnlineInit' = FALSE
  /\ ev' = [NoEvents EXCEPT !.handler = "reboot"]
  /\ UNCHANGED <<now, ticks, cacheFile, maFile>>

Next == Setup \/ Loop \/ Tick \/ WifiLost \/ SntpSync \/ Reboot

Spec == Init /\ [][Next]_vars

\* ------------------------------------------------------------ the catch-up decision alone
\* shouldCatchUpMissedDailyUpdate evaluated once, at an instant and on a held
\* state drawn from the sets below: around the smallest valid epoch, around
\* the fetch time, at the ends of a day; snapshots the fetch pipeline produces
\* on two days, with and without tomorrow's slots, ok and not.
Day0 == DayOf(Day0Start)

CatchUpTimes ==
  {kValidEpochMin - 1, kValidEpochMin, kValidEpochMin + 1,
   MkTime(Day0, 0, 0, 0), MkTime(Day0, 12, 59, 59), MkTime(Day0, 13, 0, 0),
   MkTime(Day0, 13, 0, 1), MkTime(Day0, 23, 59, 59),
   MkTime(Day0 + 1, 12, 0, 0), MkTime(Day0 + 1, 13, 0, 0)}

SnapshotAt(resp, t) ==
  fetchNordPoolPriceInfo(resp, nordpoolResolutionMinutes, TRUE, t, NoFile).out

CatchUpStates ==
  {PriceState}
    \cup {SnapshotAt(resp, MkTime(d, 12, 0, 0)) : resp \in Responses, d \in {Day0, Day0 + 1}}
    \cup {[SnapshotAt(Answer(Full(4000), Full(4000)), MkTime(d, 12, 0, 0)) EXCEPT !.ok = FALSE] :
            d \in {Day0, Day0 + 1}}

InitCatchUp ==
  /\ pc = "eval"
  /\ now \in CatchUpTimes
  /\ bootAt = now
  /\ clock = "synced"
  /\ wifi = TRUE
  /\ ticks = 0
  /\ boots = 1
  /\ gState \in CatchUpStates
  /\ gLastFetchMs = 0
  /\ gNextDailyFetch = 0
  /\ gLastMinuteTick = 0
  /\ gPendingCatchUpRecheck = FALSE
  /\ gNeedsOnlineInit = FALSE
  /\ cacheFile = NoFile
  /\ maFile = NoFile
  /\ ev = NoEvents

\* Both copies of the decision are evaluated; ev counts the true results.
EvalCatchUp ==
  /\ pc = "eval"
  /\ pc' = "done"
  /\ ev' = observeCatchUp(
             observeCatchUp(
               [ev |-> [NoEvents EXCEPT !.handler = "catchUp"]],
               shouldCatchUpMissedDailyUpdate(now, gState)),
             timeUtils_shouldCatchUpMissedDailyUpdate(
               now, gState, kDailyFetchHour, kDailyFetchMinute, kValidEpochMin)).ev
  /\ UNCHANGED <<now, bootAt, clock, wifi, ticks, boots, gState, gLastFetchMs,
                 gNextDailyFetch, gLastMinuteTick, gPendingCatchUpRecheck,
                 gNeedsOnlineInit, cacheFile, maFile>>

NextCatchUp == EvalCatchUp

SpecCatchUp == InitCatchUp /\ [][NextCatchUp]_vars

\* The state holds a slot dated on the given day.
HasSlotDated(state, day) ==
  \E i \in 1..Count(state) :
    state.points[i].startsAt.len >= 10 /\ state.points[i].startsAt.day = day

\* The local time of day of t is at or past the configured fetch time.
AtOrPastFetchTime(t) ==
  LocalSec(t) % DaySec >= kDailyFetchHour * HourSec + kDailyFetchMinute * 60

CatchUpExpected(t, state) ==
  /\ hasValidClock(t)
  /\ AtOrPastFetchTime(t)
  /\ ~(state.ok /\ HasSlotDated(state, DayOf(t) + 1))

\* C8: shouldCatchUpMissedDailyUpdate(now, state) is true exactly when the
\* clock is valid, now is at or past today's fetch time and no slot of an ok
\* state is dated tomorrow; it is false at every time of day when an ok state
\* holds a slot dated tomorrow, and false before today's fetch time.
C8_CatchUpDecision ==
  pc = "done"
    => /\ ev.catchUpEvals = 2
       /\ ev.catchUpHits = IF CatchUpExpected(now, gState) THEN 2 ELSE 0
       /\ (gState.ok /\ HasSlotDated(gState, DayOf(now) + 1)) => ev.catchUpHits = 0
       /\ ~AtOrPastFetchTime(now) => ev.catchUpHits = 0

\* C8 witness: exactly at the fetch time, an ok snapshot without tomorrow's
\* slots needs the catch-up.
C8_Witness ==
  /\ pc = "done" /\ ev.catchUpHits = 2
  /\ gState.ok /\ Count(gState) > 0
  /\ now = MkTime(Day0, kDailyFetchHour, kDailyFetchMinute, 0)

\* ------------------------------------------------------------ properties: daily trigger
\* The instant at which the handler observed by ev ran.
HandlerTime == TimeOf(clock)

\* The calendar days that have a slot in the state.
DistinctDays(state) == {state.points[i].startsAt.day : i \in 1..Count(state)}

\* The daily trigger fired in the last handler and its fetch succeeded.
DailyFetchSucceeded == ev.daily /\ ev.fetched.ok
DailyFetchFailed == ev.daily /\ ~ev.fetched.ok

\* The result fetched covers less than the ok state that was held.
CoverageReduced(fetched, held) ==
  /\ held.ok /\ Count(held) > 0
  /\ \/ Count(fetched) < Count(held)
     \/ Cardinality(DistinctDays(fetched)) < Cardinality(DistinctDays(held))

\* Same number of slots, each with the same timestamp and tier and a price
\* difference below the tolerance.
SlotsIdentical(fetched, held) ==
  /\ Count(fetched) = Count(held)
  /\ \A i \in 1..Count(fetched) :
       /\ fetched.points[i].startsAt = held.points[i].startsAt
       /\ fetched.points[i].level = held.points[i].level
       /\ fetched.points[i].price - held.points[i].price < kSamePointTolerance
       /\ held.points[i].price - fetched.points[i].price < kSamePointTolerance

RetryAfterCooldown ==
  /\ gNextDailyFetch = HandlerTime + kRetryDailyIfUnchangedSec
  /\ gNextDailyFetch < MkTime(DayOf(HandlerTime) + 1, kDailyFetchHour, kDailyFetchMinute, 0)

\* C1 (as amended): on a daily trigger whose fetch succeeds with fewer slots or
\* fewer distinct calendar days than the held ok state, the held state is left
\* unchanged, the snapshot cache is not written, nothing is redrawn and the next
\* fetch time is now + 10 minutes, before the next day's trigger time.  (The
\* rolling-average store is outside this statement: the fetch itself updates it.)
C1_RejectedFetchKeepsHeldState ==
  (DailyFetchSucceeded /\ CoverageReduced(ev.fetched, ev.held))
    => /\ gState = ev.held
       /\ cacheFile = ev.heldCache
       /\ ev.dailySaves = 0
       /\ ev.dailyDraws = 0
       /\ RetryAfterCooldown

\* C1 witness: a rejected daily fetch with as many slots as held but fewer days.
C1_Witness ==
  /\ DailyFetchSucceeded /\ CoverageReduced(ev.fetched, ev.held)
  /\ Count(ev.fetched) = Count(ev.held)
  /\ gState = ev.held

\* C1 as stated: on such a rejected daily fetch nothing at all is persisted,
\* neither the snapshot cache nor the rolling-average store.
C1_NothingPersisted ==
  (DailyFetchSucceeded /\ CoverageReduced(ev.fetched, ev.held))
    => /\ gState = ev.held
       /\ cacheFile = ev.heldCache
       /\ maFile = ev.heldStore
       /\ RetryAfterCooldown

\* C2: fetchAndRender never replaces an ok, non-empty held state by a
\* successful result that covers fewer slots or fewer distinct calendar days.
C2_RenderRejectsCoverageRegression ==
  (ev.renders > 0 /\ ev.renderFetched.ok /\ CoverageReduced(ev.renderFetched, ev.renderHeld))
    => ev.renderAfter.points = ev.renderHeld.points

\* C3: on a daily trigger whose fetch fails, held data (slots, count, current
\* slot, ok flag, everything but the error text) is unchanged, the snapshot
\* cache is not written, and the next fetch time is now + 10 minutes, before
\* the next day's trigger time.
C3_FailedDailyFetchKeepsData ==
  DailyFetchFailed
    => /\ Count(ev.held) > 0 => [gState EXCEPT !.error = ev.held.error] = ev.held
       /\ cacheFile = ev.heldCache
       /\ RetryAfterCooldown

\* C3 witness: a failed daily fetch while data is held.
C3_Witness ==
  /\ DailyFetchFailed /\ Count(ev.held) > 0 /\ ev.held.ok
  /\ gState.points = ev.held.points /\ gState.ok

\* The last fetchAndRender of the handler failed.
RenderFailed == ev.renders > 0 /\ ~ev.renderFetched.ok

\* C4 (as amended): a failed fetch writes its error message onto the held
\* state whether or not data is held; with data held only the error field
\* changes, without data the failed result becomes the held state.
C4_FailedFetchWritesError ==
  /\ RenderFailed
       => /\ ev.renderAfter.error = ev.renderFetched.error
          /\ Count(ev.renderHeld) > 0
               => [ev.renderAfter EXCEPT !.error = ev.renderHeld.error] = ev.renderHeld
          /\ Count(ev.renderHeld) = 0 => ev.renderAfter = ev.renderFetched
  /\ DailyFetchFailed
       => /\ gState.error = ev.fetched.error
          /\ Count(ev.held) > 0 => [gState EXCEPT !.error = ev.held.error] = ev.held
          /\ Count(ev.held) = 0 => gState = ev.fetched

\* C4 witness: a fetchAndRender that failed while data was held and wrote its
\* error onto the held state.
C4_Witness ==
  /\ RenderFailed /\ Count(ev.renderHeld) > 0
  /\ ev.renderAfter.error = "HTTP GET failed"
  /\ ev.renderHeld.error = ""

\* C4 as stated: when data is held, a failed fetch leaves the error field of
\* the held state unchanged.
C4_ErrorOnlyWithoutData ==
  /\ (RenderFailed /\ Count(ev.renderHeld) > 0) => ev.renderAfter.error = ev.renderHeld.error
  /\ (DailyFetchFailed /\ Count(ev.held) > 0) => gState.error = ev.held.error

\* C5: on a daily trigger whose fetch succeeds with the slots of the held state
\* (same count, same timestamps and tiers, prices within the tolerance), the
\* held state is not modified, nothing is redrawn, neither file is written and
\* the next fetch time is now + 10 minutes, before the next day's trigger time.
C5_IdenticalFetchIsIgnored ==
  (DailyFetchSucceeded /\ SlotsIdentical(ev.fetched, ev.held))
    => /\ gState = ev.held
       /\ ev.dailyDraws = 0
       /\ ev.dailySaves = 0
       /\ cacheFile = ev.heldCache
       /\ maFile = ev.heldStore
       /\ RetryAfterCooldown

\* C5 witness: the slots are identical although a price differs within the tolerance.
C5_Witness ==
  /\ DailyFetchSucceeded /\ SlotsIdentical(ev.fetched, ev.held)
  /\ \E i \in 1..Count(ev.held) : ev.fetched.points[i].price # ev.held.points[i].price
  /\ gState = ev.held

\* The daily fetch succeeded, does not reduce coverage and differs from what is held.
DailyFetchIsNew ==
  /\ DailyFetchSucceeded
  /\ ~CoverageReduced(ev.fetched, ev.held)
  /\ ~SlotsIdentical(ev.fetched, ev.held)

\* The fetched result was adopted and written to the snapshot cache.
FetchedAdoptedAndPersisted ==
  /\ gState = ev.fetched
  /\ ev.dailySaves = 1
  /\ cacheFile.exists
  /\ cacheFile.data.points = ev.fetched.points
  /\ cacheFile.data.source = ev.fetched.source

C7_LastKnownGoodKept ==
  [][(pc = "run" /\ pc' = "run" /\ gState.ok /\ Count(gState) > 0)
       => (gState'.ok /\ Count(gState') > 0)]_vars

\* C7 witness: a loop iteration without WiFi flagged the held data as offline
\* and kept it.
C7_Witness ==
  /\ ev.handler = "loop" /\ ~wifi /\ ev.draws = 1
  /\ gState.source = "no wifi" /\ gState.ok /\ Count(gState) > 0

\* C9: a loop iteration that finds WiFi restored (with a valid clock) evaluates
\* the catch-up recheck exactly once, and an evaluation that is true makes the
\* fetch run at once.
C9_RecheckAfterWifiRestoration ==
  /\ (ev.handler = "loop" /\ ev.restored /\ hasValidClock(HandlerTime))
       => ev.catchUpEvals = 1
  /\ ev.catchUpHits = 1 => (gNextDailyFetch = HandlerTime \/ ev.daily)

\* C10: the first loop iteration that finds the connection restored performs
\* the full reinitialization (clock resync, reschedule, immediate fetch) once,
\* whether WiFi was missing at boot or was lost while running.
C10_ReinitOnEveryRestoration ==
  (ev.handler = "loop" /\ ev.restored)
    => /\ ev.onlineInits = 1
       /\ ev.clockSyncs = 1
       /\ ev.renders >= 1

\* C11: a loop iteration that runs while disconnected and cannot reconnect
\* changes only the source label and, when the held state is not ok, the error
\* message: slots, count, current index, current fields, ok flag, the fetch
\* schedule and both files are unchanged, and no fetch is attempted.
C11_DisconnectedLoopFrame ==
  [][(pc = "run" /\ ev'.handler = "loop" /\ ~wifi')
       => /\ [gState' EXCEPT !.source = gState.source, !.error = gState.error] = gState
          /\ gState'.source = "no wifi"
          /\ gState.ok => gState'.error = gState.error
          /\ ~gState.ok => gState'.error = "no wifi"
          /\ gNextDailyFetch' = gNextDailyFetch
          /\ gLastFetchMs' = gLastFetchMs
          /\ gLastMinuteTick' = gLastMinuteTick
          /\ gPendingCatchUpRecheck' = gPendingCatchUpRecheck
          /\ gNeedsOnlineInit' = gNeedsOnlineInit
          /\ cacheFile' = cacheFile /\ maFile' = maFile
          /\ ev'.fetches = 0 /\ ev'.renders = 0 /\ ~ev'.daily]_vars

\* C11 witness: WiFi was lost after a failed first fetch; the disconnected
\* iteration rewrote the error text and kept the schedule.
C11_Witness ==
  /\ ev.handler = "loop" /\ ~wifi /\ ev.draws = 1 /\ ev.fetches = 0
  /\ ~gState.ok /\ gState.source = "no wifi" /\ gState.error = "no wifi"
  /\ gNextDailyFetch # 0 /\ gLastFetchMs # 0

\* ------------------------------------------------------------ properties: clock-driven updates
\* The last handler was a loop iteration that reached handleClockDrivenUpdates
\* with a valid clock.
ClockDrivenIteration == ev.handler = "loop" /\ wifi /\ hasValidClock(HandlerTime)

\* The next occurrence of the daily fetch time strictly after t.
NextFetchTimeAfter(t) ==
  IF MkTime(DayOf(t), kDailyFetchHour, kDailyFetchMinute, 0) > t
  THEN MkTime(DayOf(t), kDailyFetchHour, kDailyFetchMinute, 0)
  ELSE MkTime(DayOf(t) + 1, kDailyFetchHour, kDailyFetchMinute, 0)

\* C12: after a loop iteration that ran handleClockDrivenUpdates with a valid
\* clock the next fetch time is non-zero and strictly later than now; a daily
\* trigger that fired left it at now + 10 minutes or at the next 13:00, and at
\* most one daily-trigger fetch ran in the iteration.
C12_TriggerAlwaysRescheduled ==
  ClockDrivenIteration
    => /\ gNextDailyFetch # 0
       /\ gNextDailyFetch > HandlerTime
       /\ ev.daily => gNextDailyFetch \in {HandlerTime + kRetryDailyIfUnchangedSec,
                                            NextFetchTimeAfter(HandlerTime)}
       /\ ev.fetches - ev.renders = (IF ev.daily THEN 1 ELSE 0)

\* C12 witness: an iteration whose error retry fetched and whose daily trigger
\* then fired once and was rescheduled.
C12_Witness ==
  /\ ClockDrivenIteration /\ ev.daily /\ ev.renders = 1 /\ ev.fetches = 2
  /\ gNextDailyFetch > HandlerTime

\* The orders in which the parts of handleClockDrivenUpdates may run: catch-up
\* recheck, then slot re-selection, then daily trigger, each at most once.
ClockDrivenOrders ==
  {<<>>, <<"recheck">>, <<"reselect">>, <<"trigger">>,
   <<"recheck", "reselect">>, <<"recheck", "trigger">>, <<"reselect", "trigger">>,
   <<"recheck", "reselect", "trigger">>}

\* C13: within one loop iteration the pending catch-up recheck is evaluated
\* first, then the minute-tick slot re-selection, then the daily trigger check;
\* a recheck that sets the next fetch time to now makes the fetch run in that
\* same iteration.
C13_ClockDrivenOrder ==
  ev.handler = "loop"
    => /\ ev.order \in ClockDrivenOrders
       /\ ev.catchUpHits > 0 => (ev.daily /\ ev.order[Len(ev.order)] = "trigger")

\* C13 witness: an iteration in which the recheck was true, the minute had
\* changed and the fetch ran.
C13_Witness ==
  /\ ev.handler = "loop" /\ ev.catchUpHits = 1
  /\ ev.order = <<"recheck", "reselect", "trigger">>
  /\ gNextDailyFetch > HandlerTime

\* ------------------------------------------------------------ the minute tick
\* The program run through one boot with loop iterations seconds apart, across
\* the minute and slot boundary at 13:00.
InitMinute ==
  /\ pc = "boot"
  /\ now \in MinuteStartTimes
  /\ bootAt = now
  /\ clock = "unset"
  /\ wifi = FALSE
  /\ ticks = 0
  /\ boots = 1
  /\ gState = PriceState
  /\ gLastFetchMs = 0
  /\ gNextDailyFetch = 0
  /\ gLastMinuteTick = 0
  /\ gPendingCatchUpRecheck = FALSE
  /\ gNeedsOnlineInit = FALSE
  /\ cacheFile = NoFile
  /\ maFile = NoFile
  /\ ev = NoEvents

\* Seconds pass between two loop iterations.
TickSeconds ==
  /\ ticks < MaxSecondTicks
  /\ \E d \in SecondSteps : now' = now + d
  /\ ticks' = ticks + 1
  /\ ev' = [NoEvents EXCEPT !.handler = "tick"]
  /\ UNCHANGED <<pc, bootAt, clock, wifi, boots, gState, gLastFetchMs,
                 gNextDailyFetch, gLastMinuteTick, gPendingCatchUpRecheck,
                 gNeedsOnlineInit, cacheFile, maFile>>

NextMinute == Setup \/ Loop \/ TickSeconds \/ WifiLost \/ SntpSync

SpecMinute == InitMinute /\ [][NextMinute]_vars

\* Redraws of the last handler made by the slot re-selection: those not made
\* by a fetchAndRender or by the daily trigger.
SlotRedraws == ev.draws - ev.renders - ev.dailyDraws

\* C14: minute-tick detection is edge-triggered.  After a call of
\* handleClockDrivenUpdates with a valid clock the last-seen minute is now/60
\* and it never decreases; the slot re-selection runs at most once in a call
\* and only in a call that moves the last-seen minute to a new value, so at
\* most once per value of now/60; a call with the same now/60 as the previous
\* call re-selects nothing and makes no slot redraw.
C14_MinuteTickEdgeTriggered ==
  /\ [](ClockDrivenIteration => gLastMinuteTick = HandlerTime \div 60)
  /\ [][gLastMinuteTick' >= gLastMinuteTick]_vars
  /\ [][(ev'.handler = "loop" /\ wifi' /\ hasValidClock(HandlerTime'))
          => /\ ev'.reselects <= 1
             /\ ev'.reselects = 1 => gLastMinuteTick # HandlerTime' \div 60
             /\ gLastMinuteTick = HandlerTime' \div 60
                  => (ev'.reselects = 0 /\ SlotRedraws' = 0)]_vars

\* C14 witness: a second call within the same minute, seconds after the call
\* that re-selected the 13:00 slot, re-selected nothing.
C14_Witness ==
  /\ ClockDrivenIteration /\ ev.reselects = 0 /\ ev.draws = 0
  /\ gState.ok /\ gState.currentIndex = 1
  /\ gLastMinuteTick = HandlerTime \div 60
  /\ HandlerTime % 60 # 0
  /\ HourOf(HandlerTime) = kDailyFetchHour

\* ------------------------------------------------------------ properties: current slot
\* The positions (from 1) of the slots of the state that contain instant t.
SlotsAt(state, t) ==
  {i \in 1..Count(state) :
     /\ currentIntervalKey(state.resolutionMinutes, t) # <<>>
     /\ intervalKeyFromIso(state.points[i].startsAt, state.resolutionMinutes)
          = currentIntervalKey(state.resolutionMinutes, t)}

\* The current index and the current fields of the state are those of a slot
\* that contains instant t.
PointsToSlotAt(state, t) ==
  /\ state.currentIndex + 1 \in SlotsAt(state, t)
  /\ state.currentStartsAt = state.points[state.currentIndex + 1].startsAt
  /\ state.currentPrice = state.points[state.currentIndex + 1].price
  /\ state.currentLevel = state.points[state.currentIndex + 1].level

\* The last handler saw a minute tick, a successful fetch or a cache load.
MinuteTickSeen == ev.handler = "loop" /\ ev.reselects > 0
FetchSucceededSeen ==
  /\ ev.handler \in {"setup", "loop"}
  /\ \/ ev.renders > 0 /\ ev.renderFetched.ok
     \/ ev.daily /\ ev.fetched.ok
CacheLoadSeen == ev.handler = "setup" /\ ev.fetches = 0 /\ gState.ok

\* C15: after a handler in which a minute tick was seen, a fetch succeeded or
\* the cache was loaded, a held state that contains a slot for the current
\* instant has its current index and current fields on such a slot.
C15_CurrentSlotTracked ==
  ((MinuteTickSeen \/ FetchSucceededSeen \/ CacheLoadSeen) /\ SlotsAt(gState, HandlerTime) # {})
    => PointsToSlotAt(gState, HandlerTime)

\* C15 witness: the minute tick at 13:00 moved the current slot of the held
\* state although the fetch of that iteration failed.
C15_Witness ==
  /\ MinuteTickSeen /\ ev.daily /\ ~ev.fetched.ok /\ ev.renders = 0
  /\ ev.held.currentIndex = 1 /\ gState.currentIndex = 1
  /\ PointsToSlotAt(gState, HandlerTime)
  /\ ~ PointsToSlotAt(gState, HandlerTime - kRetryDailyIfUnchangedSec)

\* ------------------------------------------------------------ properties: boot
\* The snapshot that covers the current slot, and the snapshot that merely
\* exists, as setup() finds them in the cache file at instant t.
CurrentSnapshot(t) == priceCacheLoadIfCurrent(activeSourceLabel, cacheFile, t)
AvailableSnapshot(t) == priceCacheLoadIfAvailable(activeSourceLabel, cacheFile, t)

\* A cache adoption leaves the recheck pending unless the evaluation at the end
\* of setup() was true, which schedules the fetch for now instead.
RecheckMarked(pending, hits, nextFetch, t) ==
  /\ pending = (hits = 0)
  /\ hits > 0 => nextFetch = t

C16_AvailableSnapshotAdopted ==
  /\ ev.handler = "setup" /\ wifi /\ ev.fetches = 0 /\ ev.saves = 0 /\ gState.ok
C16_BootFetchFailed ==
  /\ ev.handler = "setup" /\ wifi /\ ev.fetches = 1 /\ ~gState.ok

\* ------------------------------------------------------------ recovery from the error state
\* One boot that stays up: loop() is called again and again, the clock advances
\* by the retry interval, and the upstream, which may fail at first, answers
\* every request after MaxFailingTicks intervals.
GoodResponses == {r \in Responses : r.today.status = "ok"}
AnswersNow == IF ticks >= MaxFailingTicks THEN GoodResponses ELSE Responses

LoopRecover ==
  /\ pc = "run"
  /\ \E reconnected \in (IF wifi THEN {TRUE} ELSE BOOLEAN) :
       \E synced \in (IF reconnected /\ gNeedsOnlineInit THEN BOOLEAN ELSE {FALSE}) :
         LET c == IF reconnected /\ gNeedsOnlineInit THEN ClockAfterSync(synced) ELSE clock
             t == TimeOf(c)
             m == [Globals("loop") EXCEPT !.ev.restored = ~wifi /\ reconnected]
             fetch1 == reconnected
                       /\ (gNeedsOnlineInit
                           \/ (~gState.ok /\ Millis - gLastFetchMs >= kRetryOnErrorMs))
         IN \E resp1 \in (IF fetch1 THEN AnswersNow ELSE {NoResponse}) :
              LET fetch2 == reconnected /\ hasValidClock(t)
                            /\ dailyFetchDue(clockDrivenPrefix(loopOnline(m, t, resp1, Millis), t), t)
              IN \E resp2 \in (IF fetch2 THEN AnswersNow ELSE {NoResponse}) :
                   /\ Commit(loop(m, reconnected, t, resp1, resp2, Millis))
                   /\ wifi' = reconnected
                   /\ clock' = c
  /\ UNCHANGED <<pc, now, bootAt, ticks, boots>>

\* The retry interval passes.  Only the time spent connected with a valid
\* clock is counted: the upstream may fail until MaxFailingTicks intervals
\* have passed and answers from then on.
TickRecover ==
  /\ pc = "run" /\ wifi /\ hasValidClock(TimeOf(clock))
  /\ ticks < MaxFailingTicks
  /\ now' = now + kRetryOnErrorMs \div 1000
  /\ ticks' = ticks + 1
  /\ ev' = [NoEvents EXCEPT !.handler = "tick"]
  /\ UNCHANGED <<pc, bootAt, clock, wifi, boots, gState, gLastFetchMs,
                 gNextDailyFetch, gLastMinuteTick, gPendingCatchUpRecheck,
                 gNeedsOnlineInit, cacheFile, maFile>>

NextRecover == Setup \/ LoopRecover \/ TickRecover \/ SntpSync

\* A loop iteration with WiFi would fetch: the online initialisation is
\* outstanding or the error retry is due.
LoopWouldFetch ==
  pc = "run" /\ wifi /\ (gNeedsOnlineInit \/ errorRetryDue(Globals("loop"), Millis))

\* loop() is called forever and time passes.  The fairness of the loop is
\* stated on the states in which an iteration fetches: such an iteration
\* changes the state, so WF_vars(LoopRecover) implies that these states do not
\* last forever.
SpecRecover ==
  Init /\ [][NextRecover]_vars /\ WF_vars(TickRecover) /\ []<>(~LoopWouldFetch)

\* C17: the error state is recoverable.  From a held state that is not ok,
\* with WiFi connected and a valid clock, if fetches succeed from some time on
\* and loop() keeps running, the held state becomes ok with at least one slot.
C17_ErrorStateRecovers ==
  (pc = "run" /\ wifi /\ hasValidClock(HandlerTime) /\ ~gState.ok)
    ~> (gState.ok /\ Count(gState) > 0)

\* C17 witness: the error retry of a loop iteration, 30 seconds or more after
\* the failed fetch, replaced the failed state by fetched prices.
C17_Witness ==
  /\ ev.handler = "loop" /\ ev.onlineInits = 0 /\ ev.renders = 1 /\ ~ev.daily
  /\ ~ev.renderHeld.ok /\ ev.renderHeld.error = "HTTP GET failed"
  /\ gState.ok /\ Count(gState) > 0
  /\ ticks > 0

\* ------------------------------------------------------------ the clock threshold
\* The program started with a system clock that already reads a time around
\* the sanity threshold (the clock survives a restart that keeps the RTC
\* domain powered), with loop iterations seconds apart.
InitClock ==
  /\ pc = "boot"
  /\ now \in ThresholdStartTimes
  /\ bootAt = now
  /\ clock = "synced"
  /\ wifi = FALSE
  /\ ticks = 0
  /\ boots = 1
  /\ gState = PriceState
  /\ gLastFetchMs = 0
  /\ gNextDailyFetch = 0
  /\ gLastMinuteTick = 0
  /\ gPendingCatchUpRecheck = FALSE
  /\ gNeedsOnlineInit = FALSE
  /\ cacheFile = NoFile
  /\ maFile = NoFile
  /\ ev = NoEvents

NextClock == Setup \/ Loop \/ TickSeconds

SpecClock == InitClock /\ [][NextClock]_vars

\* The last fetch of the handler was refused because of the clock.
FetchRefusedForClock == ev.fetches > 0 /\ ev.fetched.error = "Clock not synced"

\* C18: while the clock is not past the threshold no fetch is performed (it
\* returns not ok without slots), the current slot key is empty and no daily
\* trigger is scheduled or fired, and the three checks agree on which clock
\* values are unsynchronized: after a handler with WiFi that fetched, the
\* fetch was refused for the clock exactly when the clock is not past the
\* threshold and exactly when the slot key is empty.
C18_ClockChecksAgree ==
  (ev.handler \in {"setup", "loop"} /\ wifi /\ ev.fetches > 0)
    => /\ ~hasValidClock(HandlerTime)
            => /\ ~ev.fetched.ok /\ Count(ev.fetched) = 0
               /\ currentIntervalKey(nordpoolResolutionMinutes, HandlerTime) = <<>>
               /\ gNextDailyFetch = 0 /\ ~ev.daily
       /\ FetchRefusedForClock <=> ~hasValidClock(HandlerTime)
       /\ (currentIntervalKey(nordpoolResolutionMinutes, HandlerTime) = <<>>)
            <=> ~hasValidClock(HandlerTime)

\* Away from the threshold value itself the checks of C18 do agree.
C18_AgreeOffThreshold ==
  (ev.handler \in {"setup", "loop"} /\ wifi /\ ev.fetches > 0 /\ HandlerTime # kValidEpochMin)
    => /\ ~hasValidClock(HandlerTime)
            => /\ ~ev.fetched.ok /\ Count(ev.fetched) = 0
               /\ currentIntervalKey(nordpoolResolutionMinutes, HandlerTime) = <<>>
               /\ gNextDailyFetch = 0 /\ ~ev.daily
       /\ FetchRefusedForClock <=> ~hasValidClock(HandlerTime)
       /\ (currentIntervalKey(nordpoolResolutionMinutes, HandlerTime) = <<>>)
            <=> ~hasValidClock(HandlerTime)

\* ------------------------------------------------------------ rolling-average ingestion
\* The tier pass of a fetch (applyMovingAverageToState) applied again and again
\* to one slot list, starting from any stored record.
IngestDay == Day0Start \div DaySec + 1
\* Timestamps of slots: four with an hourly key, one too short to have a key.
IngestStamps ==
  {IsoStr(IngestDay, 0, 0), IsoStr(IngestDay, 13, 0), IsoStr(IngestDay + 1, 0, 0),
   IsoStr(IngestDay + 1, 13, 0), [len |-> 10, day |-> IngestDay, hour |-> 0, min |-> 0]}

\* The slot lists: every sequence of up to MaxListLen timestamps, sorted or
\* not, with or without repetitions; the price tells the position.
IngestLists ==
  UNION {[1..n -> IngestStamps] : n \in 0..MaxListLen}
ListState(stamps) ==
  [PriceState EXCEPT !.points =
     [i \in 1..Len(stamps) |->
        [startsAt |-> stamps[i], price |-> 900000 + 100000 * i, level |-> "UNKNOWN"]]]

\* The stored records: no file, and records that are empty, partly filled or
\* full (the cursor wrapped), with a last-processed key that is absent,
\* malformed, before, inside or after the lists, or of another resolution.
IngestKeys ==
  {<<>>, <<IngestDay>>, <<IngestDay - 1, 23>>, <<IngestDay, 13>>,
   <<IngestDay + 1, 13>>, <<IngestDay, 13, 15>>}
FullWindow == [i \in 1..kMovingAverageWindowHours |-> 1000000]
StoredRecord(key, count, head, resolution) ==
  [resetStore EXCEPT !.lastSlotKey = key, !.count = count, !.head = head,
                     !.resolutionMinutes = resolution,
                     !.values = SubSeq(FullWindow, 1, count)]
IngestFiles ==
  {NoFile}
    \cup {FileOf(StoredRecord(key, f[1], f[2], 60)) :
            key \in IngestKeys,
            f \in {<<0, 0>>, <<2, 2>>, <<kMovingAverageWindowHours, 0>>,
                   <<kMovingAverageWindowHours, kMovingAverageWindowHours - 1>>}}
    \cup {FileOf(StoredRecord(<<IngestDay, 13>>, 2, 2, 15)),
          FileOf(StoredRecord(<<IngestDay, 13>>, 2, kMovingAverageWindowHours, 60))}

InitIngest ==
  /\ pc = "ingest"
  /\ now = MkTime(IngestDay, 12, 0, 0)
  /\ bootAt = now
  /\ clock = "synced"
  /\ wifi = TRUE
  /\ ticks = 0
  /\ boots = 1
  /\ gState \in {ListState(l) : l \in IngestLists}
  /\ gLastFetchMs = 0
  /\ gNextDailyFetch = 0
  /\ gLastMinuteTick = 0
  /\ gPendingCatchUpRecheck = FALSE
  /\ gNeedsOnlineInit = FALSE
  /\ cacheFile = NoFile
  /\ maFile \in IngestFiles
  /\ ev = NoEvents

\* One ingestion of the slot list: ev keeps the store file as it was before,
\* whether this ingestion reported a change (saves) and how many ingestions
\* did so far (dailySaves).
Ingest ==
  /\ pc = "ingest"
  /\ ticks < MaxIngests
  /\ ticks' = ticks + 1
  /\ maFile' = applyMovingAverageToState(gState, maFile, now).file
  /\ \E changed \in {Count(gState) > 0 /\ historyOfState(gState, maFile).changed} :
       ev' = [ev EXCEPT !.handler = "ingest", !.heldStore = maFile,
                        !.saves = IF changed THEN 1 ELSE 0,
                        !.dailySaves = IF changed THEN @ + 1 ELSE @]
  /\ UNCHANGED <<pc, now, bootAt, clock, wifi, boots, gState, gLastFetchMs,
                 gNextDailyFetch, gLastMinuteTick, gPendingCatchUpRecheck,
                 gNeedsOnlineInit, cacheFile>>

NextIngest == Ingest

SpecIngest == InitIngest /\ [][NextIngest]_vars

\* The store an ingestion starts from, given the store file and the
\* resolution of the state.
StoreFor(file, resolutionMinutes) ==
  storeForResolution(storeOrReset(loadStore(file)),
                     normalizeResolutionMinutes(resolutionMinutes),
                     movingAverageWindowForResolution(resolutionMinutes))
StoreIn(file) == StoreFor(file, nordpoolResolutionMinutes)

\* C19: ingestion is idempotent.  Ingesting the same slot list again right
\* after an ingestion reports no change, writes nothing, and leaves the sample
\* count, the cursor, the sample values, the last-processed key and the
\* average as they were after the first ingestion.
C19_IngestIdempotent ==
  (ev.handler = "ingest" /\ ticks >= 2)
    => /\ ev.saves = 0
       /\ maFile = ev.heldStore
       /\ StoreIn(maFile).count = StoreIn(ev.heldStore).count
       /\ StoreIn(maFile).head = StoreIn(ev.heldStore).head
       /\ StoreIn(maFile).values = StoreIn(ev.heldStore).values
       /\ StoreIn(maFile).lastSlotKey = StoreIn(ev.heldStore).lastSlotKey
       /\ movingAverageValue(StoreIn(maFile)) = movingAverageValue(StoreIn(ev.heldStore))

\* C19 witness: the first ingestion appended to a full window (the cursor
\* wrapped) starting from a malformed last-processed key, the second changed
\* nothing.
C19_Witness ==
  /\ ev.handler = "ingest" /\ ticks = 2 /\ ev.dailySaves = 1 /\ ev.saves = 0
  /\ maFile = ev.heldStore /\ maFile.exists
  /\ maFile.data.count = kMovingAverageWindowHours /\ maFile.data.head = 1
  /\ Count(gState) = 3

\* ------------------------------------------------------------ one sample per slot key
\* The keys of the slots the upstream publishes, from the day of the first
\* boot up to the last-processed key.
KeysUpTo(last) ==
  IF last = <<>> THEN {}
  ELSE {k \in {<<d, SlotHours[i]>> : d \in (Day0 - 1)..last[1], i \in 1..Len(SlotHours)} :
          KeyLeq(k, last)}

\* The keys of the slots of a state.
KeysOf(state) ==
  {intervalKeyFromIso(state.points[i].startsAt, state.resolutionMinutes) :
     i \in 1..Count(state)}

\* What one step did to the stored record old, giving new: the last-processed
\* key did not decrease, no sample was removed or rewritten, samples were
\* appended only together with a move of the last-processed key to a greater
\* key, and no more of them than there are slot keys between the two.
RecordOnlyGrows(old, new) ==
  /\ KeyLeq(old.lastSlotKey, new.lastSlotKey)
  /\ new.count >= old.count
  /\ SubSeq(new.values, 1, old.count) = SubSeq(old.values, 1, old.count)
  /\ new.count > old.count => new.lastSlotKey # old.lastSlotKey
  /\ new.count - old.count
       <= Cardinality(KeysUpTo(new.lastSlotKey) \ KeysUpTo(old.lastSlotKey))

\* C20: across fetches and reboots each slot key contributes at most one
\* sample to the stored record.  The record never holds more samples than
\* there are slot keys up to its last-processed key; every step leaves the
\* last-processed key where it was or moves it to a greater key and appends
\* at most one sample per slot key in between; and a handler whose one fetch
\* brought only slots with keys up to the last-processed key leaves the
\* record file as it was.
C20_OneSamplePerKey ==
  /\ [](StoreIn(maFile).count <= Cardinality(KeysUpTo(StoreIn(maFile).lastSlotKey)))
  /\ [][/\ RecordOnlyGrows(StoreIn(maFile), StoreIn(maFile'))
        /\ (/\ ev'.fetches = 1
            /\ \A k \in KeysOf(ev'.fetched) : KeyLeq(k, StoreIn(maFile).lastSlotKey))
           => maFile' = maFile]_vars

\* C20 witness: after a reboot a fetch on the next day brought four slots,
\* two of them already counted by the fetch of the day before; the record
\* holds six samples.
C20_Witness ==
  /\ boots = 2 /\ ev.fetches = 1 /\ gState.ok /\ Count(gState) = 4
  /\ StoreIn(maFile).count = 6
  /\ StoreIn(maFile).lastSlotKey = <<Day0 + 2, 13>>

\* ------------------------------------------------------------ the rolling window
\* The stored record over a run of ingestions of fresh slots, with the
\* configured resolution changing in between.  Ingestion number j (from 0)
\* brings the first n of the slots that follow those of ingestion
\* j - 1, WindowStride slots on.
WindowDay == Day0Start \div DaySec + 1
SlotMinute(resolution, j, i) == (j * WindowStride + i - 1) * resolution
SlotStamp(minute) ==
  IsoStr(WindowDay + minute \div 1440, (minute % 1440) \div 60, minute % 60)
SlotPrice(j, i) == 400000 + 1000 * ((37 * j + 13 * i) % 211)
WindowList(resolution, j, n) ==
  [PriceState EXCEPT
     !.resolutionMinutes = resolution,
     !.points = [i \in 1..n |->
                   [startsAt |-> SlotStamp(SlotMinute(resolution, j, i)),
                    price |-> SlotPrice(j, i), level |-> "UNKNOWN"]]]
PricesOf(state) == [i \in 1..Count(state) |-> state.points[i].price]

InitWindow ==
  /\ pc = "window"
  /\ now = MkTime(WindowDay, 12, 0, 0)
  /\ bootAt = now
  /\ clock = "synced"
  /\ wifi = TRUE
  /\ ticks = 0
  /\ boots = 0
  /\ \E r \in WindowResolutions : gState = [PriceState EXCEPT !.resolutionMinutes = r]
  /\ gLastFetchMs = 0
  /\ gNextDailyFetch = 0
  /\ gLastMinuteTick = 0
  /\ gPendingCatchUpRecheck = FALSE
  /\ gNeedsOnlineInit = FALSE
  /\ cacheFile = NoFile
  /\ maFile = NoFile
  /\ ev = NoEvents

\* The observations of one ingestion of list over the record file before:
\* the samples appended to the record since its last reset (samples), the
\* record in memory after the ingestion (store) and the file before it.
WindowObserved(list, before, samplesBefore) ==
  [NoEvents EXCEPT
     !.handler = "ingest",
     !.heldStore = before,
     !.store = historyOfState(list, before).store,
     !.samples = (IF before.exists
                     /\ before.data.resolutionMinutes = list.resolutionMinutes
                  THEN samplesBefore ELSE <<>>) \o PricesOf(list)]

\* One tier pass (applyMovingAverageToState) over a list of fresh slots.
WindowIngestList(list) ==
  /\ \E r \in {applyMovingAverageToState(list, maFile, now)} :
       /\ gState' = r.state
       /\ maFile' = r.file
  /\ ev' = WindowObserved(list, maFile, ev.samples)

WindowIngest ==
  /\ pc = "window"
  /\ ticks < MaxWindowIngests
  /\ ticks' = ticks + 1
  /\ \E n \in WindowListLens :
       WindowIngestList(WindowList(gState.resolutionMinutes, ticks, n))
  /\ UNCHANGED <<pc, now, bootAt, clock, wifi, boots, gLastFetchMs,
                 gNextDailyFetch, gLastMinuteTick, gPendingCatchUpRecheck,
                 gNeedsOnlineInit, cacheFile>>

\* The device restarts with another resolution configured.
WindowSwitch ==
  /\ pc = "window"
  /\ maFile.exists
  /\ boots < MaxSwitches
  /\ boots' = boots + 1
  /\ \E r \in WindowResolutions \ {gState.resolutionMinutes} :
       gState' = [PriceState EXCEPT !.resolutionMinutes = r]
  /\ ev' = [ev EXCEPT !.handler = "switch"]
  /\ UNCHANGED <<pc, now, bootAt, clock, wifi, ticks, gLastFetchMs,
                 gNextDailyFetch, gLastMinuteTick, gPendingCatchUpRecheck,
                 gNeedsOnlineInit, cacheFile, maFile>>

NextWindow == WindowIngest \/ WindowSwitch

SpecWindow == InitWindow /\ [][NextWindow]_vars

\* The record keeps its bounds: no more samples than the capacity, the cursor
\* inside the capacity, the capacity 72 hours of its resolution.
RecordInBounds(store) ==
  /\ store.count <= store.windowSamples
  /\ store.head < store.windowSamples
  /\ store.resolutionMinutes \in {15, 30, 60}
  /\ store.windowSamples * store.resolutionMinutes = kMovingAverageWindowHours * 60

\* C21: the rolling-average record keeps count <= capacity, cursor < capacity
\* and capacity = 72 h / resolution (72, 144 or 288), in memory after it was
\* loaded or reset for the configured resolution, in memory after an
\* ingestion, and as persisted.
C21_RecordInBounds ==
  /\ RecordInBounds(StoreFor(maFile, gState.resolutionMinutes))
  /\ RecordInBounds(ev.store)
  /\ maFile.exists => RecordInBounds(maFile.data)

\* C21 witness: a 15-minute record that has wrapped: 288 samples, the cursor
\* back inside the window after 320 appended samples, in memory and on file.
C21_Witness ==
  /\ ev.handler = "ingest" /\ Len(ev.samples) = 320
  /\ ev.store.resolutionMinutes = 15 /\ ev.store.windowSamples = 288
  /\ ev.store.count = 288 /\ ev.store.head = 32
  /\ maFile.exists /\ maFile.data = ev.store

\* The sum of samples[lo..hi], by halves.
RECURSIVE SeqSum(_, _, _)
SeqSum(samples, lo, hi) ==
  IF lo > hi THEN 0
  ELSE IF lo = hi THEN samples[lo]
  ELSE SeqSum(samples, lo, (lo + hi) \div 2) + SeqSum(samples, (lo + hi) \div 2 + 1, hi)

\* The position, in the samples appended so far (n of them), of the most
\* recent one written at index i of a window of capacity samples.
LatestAt(n, capacity, i) == i + 1 + capacity * ((n - 1 - i) \div capacity)

\* The record holds the most recent samples of those appended to it: as many
\* as were appended up to the capacity, each index holding the latest sample
\* written there in insertion order, with the average their mean (0 when
\* there is none).
HoldsMostRecent(store, samples) ==
  /\ store.count = (IF Len(samples) < store.windowSamples
                    THEN Len(samples) ELSE store.windowSamples)
  /\ store.head = Len(samples) % store.windowSamples
  /\ \A i \in 0..(store.count - 1) :
       ValueAt(store, i) = samples[LatestAt(Len(samples), store.windowSamples, i)]
  /\ movingAverageValue(store)
       = (IF Len(samples) = 0 THEN 0
          ELSE SeqSum(samples, Len(samples) - store.count + 1, Len(samples))
                 \div store.count)

\* C22: with more than capacity samples appended the record holds capacity
\* samples, the oldest overwritten in insertion order, and the average is the
\* mean of the most recent capacity samples; before that the average is the
\* mean of all the samples appended, and 0 for an empty record.
C22_AverageOfMostRecent == HoldsMostRecent(ev.store, ev.samples)

\* C22 witness: an hourly record after 80 appended samples holds 72, index 0
\* holds the 73rd sample, and the average differs from the mean of all 80.
C22_Witness ==
  /\ ev.handler = "ingest"
  /\ ev.store.windowSamples = 72 /\ Len(ev.samples) = 80 /\ ev.store.count = 72
  /\ ValueAt(ev.store, 0) = ev.samples[73] /\ ev.samples[73] # ev.samples[1]
  /\ movingAverageValue(ev.store) = SeqSum(ev.samples, 9, 80) \div 72
  /\ movingAverageValue(ev.store) # SeqSum(ev.samples, 1, 80) \div 80

\* ------------------------------------------------------------ loading a stored record
\* The two loaders applied to a file of the right size with any header, and
\* the record applyMovingAverageToState continues with.
LoadMagics == {kAvgStoreMagic, kAvgStoreMagic + 1}
LoadVersions == {kAvgStoreVersion, kAvgStoreVersion - 1}
LoadResolutions == {0, 15, 30, 45, 60, 120}
LoadWindows == {0, 72, 100, 144, 288, 289}
LoadHeads == {0, 71, 72, 143, 144, 287, 288}
LoadCounts == {0, 72, 73, 144, 145, 288, 289}
LoadFiles ==
  {NoFile}
    \cup {FileOf([resetStore EXCEPT !.magic = f[1], !.version = f[2],
                                     !.resolutionMinutes = f[3], !.windowSamples = f[4],
                                     !.head = f[5], !.count = f[6],
                                     !.lastSlotKey = <<WindowDay, 13>>]) :
            f \in LoadMagics \X LoadVersions \X LoadResolutions \X LoadWindows
                    \X LoadHeads \X LoadCounts}

InitLoad ==
  /\ pc = "load"
  /\ now = MkTime(WindowDay, 12, 0, 0)
  /\ bootAt = now
  /\ clock = "synced"
  /\ wifi = TRUE
  /\ ticks = 0
  /\ boots = 1
  /\ gState = PriceState
  /\ gLastFetchMs = 0
  /\ gNextDailyFetch = 0
  /\ gLastMinuteTick = 0
  /\ gPendingCatchUpRecheck = FALSE
  /\ gNeedsOnlineInit = FALSE
  /\ cacheFile = NoFile
  /\ maFile \in LoadFiles
  /\ ev = NoEvents

\* The file is loaded: ev keeps which loaders accepted it and the record the
\* caller continues with (the one loaded, or a reset one).
LoadRecord ==
  /\ pc = "load"
  /\ pc' = "loaded"
  /\ ev' = [NoEvents EXCEPT
              !.handler = "load",
              !.accepted = {l \in {"loadStore", "loadMovingAverageStore"} :
                             IF l = "loadStore" THEN loadStore(maFile).ok
                             ELSE loadMovingAverageStore(maFile).ok},
              !.store = storeOrReset(loadStore(maFile))]
  /\ UNCHANGED <<now, bootAt, clock, wifi, ticks, boots, gState, gLastFetchMs,
                 gNextDailyFetch, gLastMinuteTick, gPendingCatchUpRecheck,
                 gNeedsOnlineInit, cacheFile, maFile>>

NextLoad == LoadRecord

SpecLoad == InitLoad /\ [][NextLoad]_vars

\* The conditions under which a stored record is valid.
StoredRecordValid(file) ==
  /\ file.exists
  /\ file.data.magic = kAvgStoreMagic /\ file.data.version = kAvgStoreVersion
  /\ file.data.resolutionMinutes \in {15, 30, 60}
  /\ file.data.windowSamples * file.data.resolutionMinutes = kMovingAverageWindowHours * 60
  /\ file.data.head < file.data.windowSamples
  /\ file.data.count <= file.data.windowSamples

\* C23: load accepts a stored record only if the magic and version match, the
\* resolution is 15, 30 or 60, the capacity is 72 h / resolution, the cursor
\* is below the capacity and the count at most the capacity; otherwise the
\* record is reported invalid and the caller continues with a reset record.
C23_LoadAcceptsOnlyValid ==
  ev.handler = "load"
    => /\ ev.accepted # {} => StoredRecordValid(maFile)
       /\ ~StoredRecordValid(maFile) => ev.store = resetStore

\* What loadStore does accept: the stored resolution is normalized (anything
\* but 15 and 30 reads as 60), not validated; a rejected record is replaced
\* by a reset one.
C23_LoadStoreNormalizes ==
  ev.handler = "load"
    => /\ "loadStore" \in ev.accepted
            <=> /\ maFile.exists
                /\ maFile.data.magic = kAvgStoreMagic
                /\ maFile.data.version = kAvgStoreVersion
                /\ maFile.data.windowSamples
                     = movingAverageWindowForResolution(maFile.data.resolutionMinutes)
                /\ maFile.data.head < maFile.data.windowSamples
                /\ maFile.data.count <= maFile.data.windowSamples
       /\ "loadStore" \notin ev.accepted => ev.store = resetStore
       /\ "loadStore" \in ev.accepted => RecordInBounds(ev.store)

\* ------------------------------------------------------------ change of resolution
\* The last ingestion found a stored record of another resolution than the
\* configured one.
IngestedAfterSwitch ==
  /\ ev.handler = "ingest"
  /\ ev.heldStore.exists
  /\ ev.heldStore.data.resolutionMinutes # gState.resolutionMinutes

\* C24: a stored record of another resolution than the configured one is
\* reset (count 0, cursor 0, empty last-processed key) and set to the
\* configured resolution and its capacity before any slot is ingested: after
\* the ingestion the record holds the slots of this list and nothing else,
\* and the average is their mean.
C24_ResetOnResolutionChange ==
  IngestedAfterSwitch
    => /\ StoreFor(ev.heldStore, gState.resolutionMinutes)
            = [resetStore EXCEPT
                 !.resolutionMinutes = gState.resolutionMinutes,
                 !.windowSamples = (kMovingAverageWindowHours * 60)
                                     \div gState.resolutionMinutes]
       /\ ev.store.resolutionMinutes = gState.resolutionMinutes
       /\ ev.store.windowSamples * gState.resolutionMinutes = kMovingAverageWindowHours * 60
       /\ ev.store.values = PricesOf(gState)
       /\ ev.store.count = Count(gState) /\ ev.store.head = Count(gState)
       /\ ev.store.lastSlotKey
            = intervalKeyFromIso(gState.points[Count(gState)].startsAt,
                                 gState.resolutionMinutes)
       /\ gState.runningAverage
            = SeqSum(PricesOf(gState), 1, Count(gState)) \div Count(gState)
       /\ maFile = FileOf(ev.store)

\* C24 witness: a full hourly record (72 samples) met a configuration of 15
\* minutes; after the ingestion of 7 slots the record has 7 samples and a
\* capacity of 288.
C24_Witness ==
  /\ IngestedAfterSwitch
  /\ ev.heldStore.data.resolutionMinutes = 60 /\ ev.heldStore.data.count = 72
  /\ gState.resolutionMinutes = 15 /\ Count(gState) = 7
  /\ ev.store.count = 7 /\ ev.store.windowSamples = 288
  /\ maFile.data.resolutionMinutes = 15

\* ------------------------------------------------------------ save and load
\* The records of the window specification: the one in memory after the last
\* ingestion, and the ones the next ingestion would start from under each
\* configurable resolution (the stored one, or a reset one).
RecordsReached ==
  {ev.store} \cup {StoreFor(maFile, r) : r \in WindowResolutions}

\* C25: round trip.  Every record reached by reset and ingestion, saved with
\* success and loaded, is accepted and comes back with the same resolution,
\* capacity, sample values, cursor, count and last-processed key; and the
\* file an ingestion left loads as the record it had in memory.
C25_SaveLoadRoundTrip ==
  /\ \A rec \in RecordsReached :
       /\ loadStore(saveStore(rec)) = [ok |-> TRUE, store |-> rec]
       /\ loadMovingAverageStore(saveStore(rec)) = [ok |-> TRUE, store |-> rec]
  /\ ev.handler = "ingest" => loadStore(maFile) = [ok |-> TRUE, store |-> ev.store]

\* C25 witness: a full 30-minute record whose cursor has wrapped was saved
\* and loads as it was in memory.
C25_Witness ==
  /\ ev.handler = "ingest"
  /\ ev.store.resolutionMinutes = 30 /\ ev.store.count = 144 /\ ev.store.head = 16
  /\ Len(ev.samples) = 160
  /\ loadStore(maFile).ok /\ loadStore(maFile).store = ev.store

\* ------------------------------------------------------------ the tier classifier
\* applyLevelsFromMovingAverage on one slot, for prices and averages on, next
\* to and far from every threshold (1e-6 currency units per kWh).
TierAverages == {-1000000, 0, 99, 100, 101, 200, 1000000, 1234560}
TierPrices ==
  {-500000, 0, 60, 61, 120, 121, 180, 181, 229, 230, 279, 280,
   599999, 600000, 600001, 899999, 900000, 900001, 1149999, 1150000, 1150001,
   1399999, 1400000, 1400001, 740736, 1111104, 1419744, 1728384, 20000000}

InitTier ==
  /\ pc = "classify"
  /\ now = MkTime(WindowDay, 12, 0, 0)
  /\ bootAt = now
  /\ clock = "synced"
  /\ wifi = TRUE
  /\ ticks = 0
  /\ boots = 1
  /\ \E price \in TierPrices, average \in TierAverages :
       gState = [PriceState EXCEPT
                   !.runningAverage = average,
                   !.points = <<[startsAt |-> IsoStr(WindowDay, 12, 0),
                                 price |-> price, level |-> "UNKNOWN"]>>]
  /\ gLastFetchMs = 0
  /\ gNextDailyFetch = 0
  /\ gLastMinuteTick = 0
  /\ gPendingCatchUpRecheck = FALSE
  /\ gNeedsOnlineInit = FALSE
  /\ cacheFile = NoFile
  /\ maFile = NoFile
  /\ ev = NoEvents

\* The slots of the state are classified against its average.
Classify ==
  /\ pc = "classify"
  /\ pc' = "classified"
  /\ gState' = withRunningAverage(gState, gState.runningAverage)
  /\ ev' = [NoEvents EXCEPT !.handler = "classify"]
  /\ UNCHANGED <<now, bootAt, clock, wifi, ticks, boots, gLastFetchMs,
                 gNextDailyFetch, gLastMinuteTick, gPendingCatchUpRecheck,
                 gNeedsOnlineInit, cacheFile, maFile>>

NextTier == Classify

SpecTier == InitTier /\ [][NextTier]_vars

\* The tiers whose condition holds for a price and an average, with
\* ratio = price / average compared as a fraction: 0.60 = 3/5, 0.90 = 9/10,
\* 1.15 = 23/20, 1.40 = 7/5.
TiersFor(price, average) ==
  {t \in {"UNKNOWN", "VERY_CHEAP", "CHEAP", "NORMAL", "EXPENSIVE", "VERY_EXPENSIVE"} :
     IF average <= kMinMovingAverage THEN t = "UNKNOWN"
     ELSE \/ t = "VERY_CHEAP" /\ 5 * price <= 3 * average
          \/ t = "CHEAP" /\ 5 * price > 3 * average /\ 10 * price <= 9 * average
          \/ t = "NORMAL" /\ 10 * price > 9 * average /\ 20 * price < 23 * average
          \/ t = "EXPENSIVE" /\ 20 * price >= 23 * average /\ 5 * price < 7 * average
          \/ t = "VERY_EXPENSIVE" /\ 5 * price >= 7 * average}

\* C26: the classifier gives UNKNOWN when the average is at most 0.0001 and
\* otherwise the tier of ratio = price / average (<= 0.60, <= 0.90, < 1.15,
\* < 1.40, or above); exactly one tier fits every price and average.
C26_TierByRatio ==
  ev.handler = "classify"
    => /\ TiersFor(gState.points[1].price, gState.runningAverage)
            = {gState.points[1].level}
       /\ gState.hasRunningAverage

\* C26 witness: a price of exactly 0.60 of the average is VERY_CHEAP.
C26_Witness ==
  /\ ev.handler = "classify"
  /\ gState.runningAverage = 1234560 /\ gState.points[1].price = 740736
  /\ gState.points[1].level = "VERY_CHEAP"

\* ------------------------------------------------------------ slot keys
\* intervalKeyFromIso on the timestamps of two slots, at any resolution asked
\* for.
KeyStamps ==
  {IsoStr(WindowDay + d, h, m) : d \in KeyDays, h \in KeyHours, m \in KeyMinutes}

InitKey ==
  /\ pc = "key"
  /\ now = MkTime(WindowDay, 12, 0, 0)
  /\ bootAt = now
  /\ clock = "synced"
  /\ wifi = TRUE
  /\ ticks = 0
  /\ boots = 1
  /\ \E a \in KeyStamps, b \in KeyStamps, r \in KeyResolutions :
       gState = [PriceState EXCEPT
                   !.resolutionMinutes = r,
                   !.points = <<[startsAt |-> a, price |-> 0, level |-> "UNKNOWN"],
                                [startsAt |-> b, price |-> 0, level |-> "UNKNOWN"]>>]
  /\ gLastFetchMs = 0
  /\ gNextDailyFetch = 0
  /\ gLastMinuteTick = 0
  /\ gPendingCatchUpRecheck = FALSE
  /\ gNeedsOnlineInit = FALSE
  /\ cacheFile = NoFile
  /\ maFile = NoFile
  /\ ev = NoEvents

\* The keys of the slots of the state are computed.
ComputeKeys ==
  /\ pc = "key"
  /\ pc' = "keyed"
  /\ ev' = [NoEvents EXCEPT
              !.handler = "key",
              !.keys = [i \in 1..Count(gState) |->
                          intervalKeyFromIso(gState.points[i].startsAt,
                                             gState.resolutionMinutes)]]
  /\ UNCHANGED <<now, bootAt, clock, wifi, ticks, boots, gState, gLastFetchMs,
                 gNextDailyFetch, gLastMinuteTick, gPendingCatchUpRecheck,
                 gNeedsOnlineInit, cacheFile, maFile>>

NextKey == ComputeKeys

SpecKey == InitKey /\ [][NextKey]_vars

\* The minute of a timestamp since day 0, and the number of characters of
\* the string a key stands for ("YYYY-MM-DDTHH" or "YYYY-MM-DDTHH:MM").
StampMinute(iso) == iso.day * 1440 + iso.hour * 60 + iso.min
KeyChars(key) == IF Len(key) = 2 THEN 13 ELSE IF Len(key) = 3 THEN 16 ELSE 0
\* The resolution in force when r is asked for.
InForce(r) == IF r \in {15, 30, 60} THEN r ELSE 60

\* The key of the slot at index i for the resolution in force, as the claim
\* has it.
KeyAsClaimed(i) ==
  /\ InForce(gState.resolutionMinutes) = 60 => KeyChars(ev.keys[i]) = 13
  /\ InForce(gState.resolutionMinutes) < 60
       => /\ KeyChars(ev.keys[i]) = 16
          /\ ev.keys[i][3] % InForce(gState.resolutionMinutes) = 0
          /\ ev.keys[i][3] <= gState.points[i].startsAt.min
          /\ gState.points[i].startsAt.min
               < ev.keys[i][3] + InForce(gState.resolutionMinutes)
  /\ ev.keys[i] = intervalKeyFromIso(gState.points[i].startsAt,
                                      InForce(gState.resolutionMinutes))

\* C27: for well-formed timestamps the slot key does not decrease when the
\* timestamp increases, timestamps of one bucket of the resolution give the
\* same key and timestamps of different buckets different keys; the key has
\* 13 characters at 60 minutes and 16, with the minute floored to a multiple
\* of the resolution, at 15 and 30; any other resolution asked for counts
\* as 60.
C27_KeyMonotoneAndBucketed ==
  ev.handler = "key"
    => /\ StampMinute(gState.points[1].startsAt) <= StampMinute(gState.points[2].startsAt)
            => KeyLeq(ev.keys[1], ev.keys[2])
       /\ (StampMinute(gState.points[1].startsAt) \div InForce(gState.resolutionMinutes)
             = StampMinute(gState.points[2].startsAt) \div InForce(gState.resolutionMinutes))
            <=> ev.keys[1] = ev.keys[2]
       /\ KeyAsClaimed(1) /\ KeyAsClaimed(2)
       /\ normalizeResolutionMinutes(gState.resolutionMinutes)
            = InForce(gState.resolutionMinutes)

\* C27 witness: at 15 minutes 13:44 and 13:30 share the key of 13:30, which
\* has 16 characters.
C27_Witness ==
  /\ ev.handler = "key" /\ gState.resolutionMinutes = 15
  /\ gState.points[1].startsAt = IsoStr(WindowDay, 13, 44)
  /\ gState.points[2].startsAt = IsoStr(WindowDay, 13, 30)
  /\ ev.keys = <<(<<WindowDay, 13, 30>>), (<<WindowDay, 13, 30>>)>>
  /\ KeyChars(ev.keys[1]) = 16

\* ------------------------------------------------------------ malformed timestamps
\* One answer of the upstream with two entries whose deliveryStart is any
\* string: a timestamp, a truncated one, or text.  The entries go through
\* addPoints, the lookups and the tier pass.
StampNow == MkTime(WindowDay, 12, 0, 0)
UpstreamStamps ==
  {IsoStr(WindowDay, 11, 0), IsoStr(WindowDay, 12, 30), IsoStr(WindowDay + 1, 11, 0)}
    \cup {[len |-> l, day |-> WindowDay, hour |-> 11, min |-> 0] : l \in ShortLens \ {0}}
    \cup {EmptyStr}
    \cup {GarbledStr(l) : l \in GarbledLens}
StampEntries(a, b) ==
  <<[deliveryStart |-> a, price |-> 4000, area |-> TRUE],
    [deliveryStart |-> b, price |-> 9000, area |-> TRUE]>>
StampFiles ==
  {NoFile, FileOf(StoredRecord(<<WindowDay - 1, 23>>, 2, 2, 60)),
   FileOf([StoredRecord(<<WindowDay - 1, 23, 45>>, 2, 2, 15) EXCEPT !.windowSamples = 288])}

InitStamp ==
  /\ pc = "stamp"
  /\ now = StampNow
  /\ bootAt = now
  /\ clock = "synced"
  /\ wifi = TRUE
  /\ ticks = 0
  /\ boots = 1
  /\ \E a \in UpstreamStamps, b \in UpstreamStamps, r \in {15, 60} :
       gState = addPoints(StampEntries(a, b), [PriceState EXCEPT !.resolutionMinutes = r])
  /\ gLastFetchMs = 0
  /\ gNextDailyFetch = 0
  /\ gLastMinuteTick = 0
  /\ gPendingCatchUpRecheck = FALSE
  /\ gNeedsOnlineInit = FALSE
  /\ cacheFile = NoFile
  /\ maFile \in StampFiles
  /\ ev = NoEvents

\* The keys of the slots, the two lookups and the tier pass: ev keeps the
\* keys, the record after the ingestion, and the indices found for the
\* current key (order[1]) and for the empty key (order[2]).
UseStamps ==
  /\ pc = "stamp"
  /\ pc' = "stamped"
  /\ \E r \in {applyMovingAverageToState(gState, maFile, now)} :
       /\ gState' = r.state
       /\ maFile' = r.file
  /\ ev' = [NoEvents EXCEPT
              !.handler = "stamp",
              !.heldStore = maFile,
              !.keys = [i \in 1..Count(gState) |->
                          intervalKeyFromIso(gState.points[i].startsAt,
                                             gState.resolutionMinutes)],
              !.store = historyOfState(gState, maFile).store,
              !.order = <<findCurrentPricePointIndex(gState, gState.resolutionMinutes, now),
                          findPricePointIndexForInterval(gState, <<>>,
                                                         gState.resolutionMinutes)>>]
  /\ UNCHANGED <<now, bootAt, clock, wifi, ticks, boots, gLastFetchMs,
                 gNextDailyFetch, gLastMinuteTick, gPendingCatchUpRecheck,
                 gNeedsOnlineInit, cacheFile>>

NextStamp == UseStamps

SpecStamp == InitStamp /\ [][NextStamp]_vars

\* A string that is a timestamp: "YYYY-MM-DDTHH:MM:SS".
IsTimestamp(iso) ==
  iso.len = 19 /\ iso.day # NonDate /\ iso.hour \in 0..23 /\ iso.min \in 0..59

\* The price of slot i is among the samples of the record.
Ingested(i) ==
  \E j \in 1..Len(ev.store.values) :
    j > StoreFor(ev.heldStore, gState.resolutionMinutes).count
      /\ ev.store.values[j] = gState.points[i].price

\* An empty key never matches: the lookup with the empty key finds nothing,
\* and a slot whose key is empty is neither found as the current slot nor
\* ingested.
EmptyKeyNeverMatches ==
  /\ ev.order[2] = -1
  /\ \A i \in 1..Count(gState) :
       ev.keys[i] = <<>> => ev.order[1] # i - 1 /\ ~Ingested(i)

\* C28: a malformed or too-short timestamp string yields an empty slot key,
\* and an empty key never matches: the lookup with an empty key finds
\* nothing, and a slot with an empty key is neither found as the current
\* slot nor ingested into the rolling average.
C28_MalformedYieldsEmptyKey ==
  ev.handler = "stamp"
    => /\ \A i \in 1..Count(gState) :
            ~IsTimestamp(gState.points[i].startsAt) => ev.keys[i] = <<>>
       /\ EmptyKeyNeverMatches

\* What holds: a string of fewer than 13 characters yields an empty key, and
\* an empty key never matches; a longer string yields its first 13
\* characters as key whatever they are.
C28_ShortYieldsEmptyKey ==
  ev.handler = "stamp"
    => /\ \A i \in 1..Count(gState) :
            gState.points[i].startsAt.len < 13 <=> ev.keys[i] = <<>>
       /\ EmptyKeyNeverMatches

\* Text of 13 characters or more that is not a timestamp was ingested and
\* became the last-processed key.
C28_TextIngested ==
  /\ ev.handler = "stamp"
  /\ gState.points[2].startsAt = GarbledStr(19)
  /\ Ingested(2)
  /\ maFile.exists /\ maFile.data.lastSlotKey = <<NonDate, 0>>

\* ------------------------------------------------------------ the current-slot tracker
\* assignCurrentFromClock on any list of slots at any reading of the clock.
TrackDay == Day0
TrackStamps ==
  {IsoStr(TrackDay - 1, 23, 0), IsoStr(TrackDay, 0, 0), IsoStr(TrackDay, 12, 0),
   IsoStr(TrackDay, 12, 30), IsoStr(TrackDay, 12, 45), IsoStr(TrackDay, 13, 0), EmptyStr}
TrackLists == UNION {[1..n -> TrackStamps] : n \in 0..MaxTrackLen}
TrackState(stamps, resolution) ==
  [PriceState EXCEPT
     !.resolutionMinutes = resolution,
     !.points = [i \in 1..Len(stamps) |->
                   [startsAt |-> stamps[i], price |-> 900000 + 100000 * i,
                    level |-> "UNKNOWN"]]]

InitTrack ==
  /\ pc = "track"
  /\ now \in TrackTimes
  /\ bootAt = now
  /\ clock = "synced"
  /\ wifi = TRUE
  /\ ticks = 0
  /\ boots = 1
  /\ \E l \in TrackLists, r \in TrackResolutions : gState = TrackState(l, r)
  /\ gLastFetchMs = 0
  /\ gNextDailyFetch = 0
  /\ gLastMinuteTick = 0
  /\ gPendingCatchUpRecheck = FALSE
  /\ gNeedsOnlineInit = FALSE
  /\ cacheFile = NoFile
  /\ maFile = NoFile
  /\ ev = NoEvents

\* The tracker runs: ev.order keeps the index it returned.
Track ==
  /\ pc = "track"
  /\ pc' = "tracked"
  /\ gState' = assignCurrentFromClock(gState, now)
  /\ ev' = [NoEvents EXCEPT
              !.handler = "track",
              !.order = <<findCurrentPricePointIndex(gState, gState.resolutionMinutes, now)>>]
  /\ UNCHANGED <<now, bootAt, clock, wifi, ticks, boots, gLastFetchMs,
                 gNextDailyFetch, gLastMinuteTick, gPendingCatchUpRecheck,
                 gNeedsOnlineInit, cacheFile, maFile>>

NextTrack == Track

SpecTrack == InitTrack /\ [][NextTrack]_vars

\* The slots of the state whose key is the key of the slot that contains
\* the local time t.
SlotsHolding(t) ==
  {i \in 1..Count(gState) :
     /\ gState.points[i].startsAt.len >= 13
     /\ gState.points[i].startsAt.day = DayOf(t)
     /\ gState.points[i].startsAt.hour = HourOf(t)
     /\ InForce(gState.resolutionMinutes) < 60
          => gState.points[i].startsAt.min \div InForce(gState.resolutionMinutes)
               = MinuteOf(t) \div InForce(gState.resolutionMinutes)}

\* With the clock taken for synchronized or not (synced), the tracker
\* returned the first slot holding the current time, or none.
TrackedFirstMatch(synced) ==
  /\ ev.order[1] \in -1..(Count(gState) - 1)
  /\ gState.currentIndex = ev.order[1]
  /\ ~synced => ev.order[1] = -1
  /\ synced /\ SlotsHolding(now) = {} => ev.order[1] = -1
  /\ synced /\ SlotsHolding(now) # {}
       => /\ ev.order[1] + 1 \in SlotsHolding(now)
          /\ \A i \in SlotsHolding(now) : ev.order[1] + 1 <= i

\* C29: the tracker returns the index of the first slot whose key equals the
\* current slot key, and none when the clock is unsynchronized or no slot
\* matches; the index is never outside [0, count) and never that of a slot
\* with another key.
C29_TrackerFirstMatchOrNone ==
  ev.handler = "track" => TrackedFirstMatch(hasValidClock(now))

\* What holds: the same with the clock taken for synchronized from
\* 1700000000 on, the value hasValidClock still refuses.
C29_TrackerFromThreshold ==
  ev.handler = "track" => TrackedFirstMatch(now >= kValidEpochMin)

\* The tracker returned a slot while hasValidClock refuses the clock.
C29_TrackedAtThreshold ==
  /\ ev.handler = "track" /\ now = kValidEpochMin /\ ~hasValidClock(now)
  /\ ev.order[1] = 1 /\ gState.currentStartsAt = IsoStr(TrackDay - 1, 23, 0)

\* ------------------------------------------------------------ loading the snapshot
\* The two load modes applied to a persisted snapshot: what priceCacheSave
\* writes for a state with any of the slot lists, for this source or another,
\* in this version or another.
SnapshotLists == UNION {[1..n -> TrackStamps] : n \in 1..MaxSnapshotLen}
SnapshotOf(stamps, resolution, source, version) ==
  [priceCacheSave([TrackState(stamps, resolution) EXCEPT !.ok = TRUE, !.source = source],
                  NoFile).file
     EXCEPT !.data.version = version]
SnapshotFiles ==
  {NoFile}
    \cup {SnapshotOf(l, r, activeSourceLabel, kCacheVersion) :
            l \in SnapshotLists, r \in {15, 60}}
    \cup {SnapshotOf(l, 60, f[1], f[2]) :
            l \in {<<IsoStr(TrackDay, 12, 0)>>},
            f \in {<<"TIBBER", kCacheVersion>>, <<activeSourceLabel, kCacheVersion + 1>>}}

InitSnapshot ==
  /\ pc = "snapshot"
  /\ now \in SnapshotTimes
  /\ bootAt = now
  /\ clock = "synced"
  /\ wifi = FALSE
  /\ ticks = 0
  /\ boots = 1
  /\ gState = PriceState
  /\ gLastFetchMs = 0
  /\ gNextDailyFetch = 0
  /\ gLastMinuteTick = 0
  /\ gPendingCatchUpRecheck = FALSE
  /\ gNeedsOnlineInit = FALSE
  /\ cacheFile \in SnapshotFiles
  /\ maFile = NoFile
  /\ ev = NoEvents

\* Both load modes run on the snapshot: ev keeps which of them accepted it
\* and the state the strict one filled (held); gState is the state the
\* lenient one filled.
LoadSnapshot ==
  /\ pc = "snapshot"
  /\ pc' = "loaded"
  /\ gState' = priceCacheLoadIfAvailable(activeSourceLabel, cacheFile, now).out
  /\ ev' = [NoEvents EXCEPT
              !.handler = "snapshot",
              !.held = priceCacheLoadIfCurrent(activeSourceLabel, cacheFile, now).out,
              !.accepted =
                {l \in {"priceCacheLoadIfCurrent", "priceCacheLoadIfAvailable"} :
                   IF l = "priceCacheLoadIfCurrent"
                   THEN priceCacheLoadIfCurrent(activeSourceLabel, cacheFile, now).ok
                   ELSE priceCacheLoadIfAvailable(activeSourceLabel, cacheFile, now).ok}]
  /\ UNCHANGED <<now, bootAt, clock, wifi, ticks, boots, gLastFetchMs,
                 gNextDailyFetch, gLastMinuteTick, gPendingCatchUpRecheck,
                 gNeedsOnlineInit, cacheFile, maFile>>

NextSnapshot == LoadSnapshot

SpecSnapshot == InitSnapshot /\ [][NextSnapshot]_vars

\* The snapshot is one this source wrote in the current format.
SnapshotLoadable ==
  /\ cacheFile.exists
  /\ cacheFile.data.version = kCacheVersion
  /\ cacheFile.data.source = activeSourceLabel

\* The slots of the snapshot whose key is the current slot key.
SnapshotCurrentSlots ==
  {i \in 1..Len(cacheFile.data.points) :
     /\ currentIntervalKey(cacheFile.data.resolutionMinutes, now) # <<>>
     /\ intervalKeyFromIso(cacheFile.data.points[i].startsAt,
                            cacheFile.data.resolutionMinutes)
          = currentIntervalKey(cacheFile.data.resolutionMinutes, now)}

\* The state a load filled has its current index on a slot with the current
\* key, and its current fields are that slot's.
OnCurrentSlot(state) ==
  /\ state.ok
  /\ state.currentIndex \in 0..(Count(state) - 1)
  /\ intervalKeyFromIso(state.points[state.currentIndex + 1].startsAt,
                         state.resolutionMinutes)
       = currentIntervalKey(state.resolutionMinutes, now)
  /\ state.currentStartsAt = state.points[state.currentIndex + 1].startsAt

\* The two modes on a snapshot without, and with, the current slot.
StrictRejectsLenientAccepts ==
  IF SnapshotCurrentSlots = {}
  THEN /\ ev.accepted = {"priceCacheLoadIfAvailable"}
       /\ gState.ok /\ gState.currentIndex = 0
       /\ gState.currentStartsAt = gState.points[1].startsAt
  ELSE /\ ev.accepted = {"priceCacheLoadIfCurrent", "priceCacheLoadIfAvailable"}
       /\ OnCurrentSlot(gState)
       /\ ev.held = gState

\* C30 as stated: a persisted snapshot with at least one slot and none with
\* the current slot key is rejected by the strict load and accepted by the
\* lenient one (ok set, current index 0); one that holds the current slot is
\* accepted by both with the current index on that slot.
C30_StrictAndLenientLoad ==
  (ev.handler = "snapshot" /\ SnapshotLoadable /\ Len(cacheFile.data.points) >= 1)
    => StrictRejectsLenientAccepts

\* C30 amended: the same for a snapshot with at least one slot whose start
\* time is not empty (slots with an empty start time are dropped on load,
\* and the index counts the slots kept).
C30_LoadOfNonBlankSnapshot ==
  (/\ ev.handler = "snapshot" /\ SnapshotLoadable
   /\ \E i \in 1..Len(cacheFile.data.points) : cacheFile.data.points[i].startsAt.len > 0)
    => StrictRejectsLenientAccepts

\* C30 witness: a snapshot of day 0 loaded at noon of day 1: the strict load
\* refused it, the lenient load took it with the current index 0.
C30_Witness ==
  /\ ev.handler = "snapshot" /\ SnapshotLoadable
  /\ now = Day0Start + DaySec + 12 * HourSec
  /\ cacheFile.data.points[1].startsAt = IsoStr(TrackDay, 12, 0)
  /\ ev.accepted = {"priceCacheLoadIfAvailable"}
  /\ ~ev.held.ok /\ gState.ok /\ gState.currentIndex = 0

\* ------------------------------------------------------------ saving the snapshot
\* priceCacheSave and applyFetchedState on a fetch result of any shape (ok or
\* failed, with slots or without), with a snapshot already persisted or not.
SaveStates ==
  CatchUpStates
    \cup {[PriceState EXCEPT !.ok = TRUE, !.source = activeSourceLabel]}
    \cup {[SnapshotAt(Answer(Full(4000), NoContent), MkTime(Day0, 12, 0, 0))
            EXCEPT !.ok = FALSE, !.error = "HTTP GET failed"]}
SaveHeldStates ==
  {PriceState,
   SnapshotAt(Answer(Full(4002), Full(4000)), MkTime(Day0, 12, 0, 0)),
   [SnapshotAt(Answer(Full(4000), Full(9000)), MkTime(Day0, 12, 0, 0))
      EXCEPT !.source = "no wifi"]}
SaveFiles ==
  {NoFile} \cup {priceCacheSave(SnapshotAt(resp, MkTime(Day0, 12, 0, 0)), NoFile).file :
                   resp \in {Answer(Full(4002), Full(4000)), Answer(Full(4000), Full(9000)),
                            Answer(Partial(4000), Partial(4000))}}

InitSave ==
  /\ pc = "save"
  /\ now \in {MkTime(Day0, 12, 50, 0), MkTime(Day0, 13, 10, 0)}
  /\ bootAt = now
  /\ clock = "synced"
  /\ wifi = TRUE
  /\ ticks = 0
  /\ boots = 1
  /\ gState \in SaveHeldStates
  /\ gLastFetchMs = 0
  /\ gNextDailyFetch = 0
  /\ gLastMinuteTick = 0
  /\ gPendingCatchUpRecheck = FALSE
  /\ gNeedsOnlineInit = FALSE
  /\ cacheFile \in SaveFiles
  /\ maFile = NoFile
  /\ ev = NoEvents

\* applyFetchedState runs on the result fetched; ev also keeps what
\* priceCacheSave alone does with that result: whether it returned true, and
\* the file it left (written).
SaveFetched ==
  /\ pc = "save"
  /\ pc' = "saved"
  /\ \E fetched \in SaveStates :
       Commit([applyFetchedState([Globals("save") EXCEPT !.gFetchBuffer = fetched,
                                                         !.ev.heldCache = cacheFile],
                                 fetched, Millis)
                 EXCEPT !.ev.accepted =
                          IF priceCacheSave(fetched, cacheFile).ok
                          THEN {"priceCacheSave"} ELSE {},
                        !.ev.written = priceCacheSave(fetched, cacheFile).file])
  /\ UNCHANGED <<now, bootAt, clock, wifi, ticks, boots>>

NextSave == SaveFetched

SpecSave == InitSave /\ [][NextSave]_vars

\* The snapshot file that holds the given state.
SnapshotFileOf(state) ==
  FileOf([version |-> kCacheVersion, source |-> state.source, currency |-> state.currency,
          resolutionMinutes |-> state.resolutionMinutes,
          hasRunningAverage |-> state.hasRunningAverage,
          runningAverage |-> state.runningAverage, points |-> state.points])

\* C31: the snapshot is written only for a state that is ok and has at least
\* one slot: priceCacheSave of a failed or empty state returns false and
\* leaves the file as it was, and applyFetchedState of a failed fetch leaves
\* the persisted snapshot as it was; for an ok state with slots the file
\* holds that state afterwards.
C31_SaveOnlyOkNonEmpty ==
  ev.handler = "save" =>
    IF ev.fetched.ok /\ Count(ev.fetched) > 0
    THEN /\ ev.accepted = {"priceCacheSave"}
         /\ ev.written = SnapshotFileOf(ev.fetched)
         /\ cacheFile = SnapshotFileOf(ev.fetched)
    ELSE /\ ev.accepted = {}
         /\ ev.written = ev.heldCache
         /\ (~ev.fetched.ok => cacheFile = ev.heldCache)
         /\ ev.saves = 0

\* C31 witness: a failed fetch result that still carries slots came in while
\* a good snapshot was persisted, and the snapshot is still there.
C31_Witness ==
  /\ ev.handler = "save"
  /\ ~ev.fetched.ok /\ Count(ev.fetched) > 0
  /\ ev.heldCache.exists /\ cacheFile = ev.heldCache
  /\ ev.accepted = {}

\* ------------------------------------------------------------ the slot capacity
\* The two normalizers and the snapshot loader fed with lists around the
\* capacity.  Entry i of a list is the i-th quarter of an hour of day 0 with a
\* price of its own; the entry at the gap has no price for the area (Nord
\* Pool) and no start time (snapshot).
CapacityStamp(i) == IsoStr(Day0, (i - 1) \div 4, ((i - 1) % 4) * 15)
CapacityUtc(i) ==
  IsoStr(MkTime(Day0, (i - 1) \div 4, ((i - 1) % 4) * 15, 0) \div DaySec,
         (MkTime(Day0, (i - 1) \div 4, ((i - 1) % 4) * 15, 0) % DaySec) \div HourSec,
         ((i - 1) % 4) * 15)
CapacityEntries(n, gap) ==
  [i \in 1..n |-> [deliveryStart |-> CapacityUtc(i), price |-> 4000 + i, area |-> i # gap]]
CapacityTibberItems(n) ==
  [i \in 1..n |-> [startsAt |-> CapacityStamp(i), energy |-> 4000 + i, level |-> "NORMAL"]]
CapacityStored(n, gap) ==
  [i \in 1..n |-> [startsAt |-> IF i = gap THEN EmptyStr ELSE CapacityStamp(i),
                    price |-> applyCustomPriceFormula(4000 + i), level |-> "NORMAL"]]
\* A state that holds the first c slots of the day before.
CapacityState(c) ==
  [PriceState EXCEPT
     !.resolutionMinutes = 15,
     !.points = [i \in 1..c |->
                   [startsAt |-> IsoStr(Day0 - 1, (i - 1) \div 4, ((i - 1) % 4) * 15),
                    price |-> 900000 + i, level |-> "UNKNOWN"]]]

InitCapacity ==
  /\ pc = "capacity"
  /\ now = MkTime(Day0, 12, 0, 0)
  /\ bootAt = now
  /\ clock = "synced"
  /\ wifi = TRUE
  /\ ticks = 0
  /\ boots = 1
  /\ gState \in {CapacityState(c) : c \in CapacityHeld}
  /\ gLastFetchMs = 0
  /\ gNextDailyFetch = 0
  /\ gLastMinuteTick = 0
  /\ gPendingCatchUpRecheck = FALSE
  /\ gNeedsOnlineInit = FALSE
  /\ cacheFile = NoFile
  /\ maFile = NoFile
  /\ ev = NoEvents

\* A list of n entries with the gap at position gap is handed to the Nord
\* Pool normalizer (the result is gState), to the Tibber normalizer (held) and
\* to the loop of the snapshot loader (fetched); renderHeld keeps the state as
\* it was before and keys the pair <<n, gap>>.
FillSlots ==
  /\ pc = "capacity"
  /\ pc' = "filled"
  /\ \E n \in CapacityLens, gap \in CapacityGaps :
       /\ gState' = addPoints(CapacityEntries(n, gap), gState)
       /\ ev' = [NoEvents EXCEPT
                   !.handler = "capacity",
                   !.keys = <<n, gap>>,
                   !.renderHeld = gState,
                   !.held = tibber_addPoints(CapacityTibberItems(n), gState),
                   !.fetched = [PriceState EXCEPT
                                  !.points = LoadPointsFrom(CapacityStored(n, gap), <<>>, 1)]]
  /\ UNCHANGED <<now, bootAt, clock, wifi, ticks, boots, gLastFetchMs,
                 gNextDailyFetch, gLastMinuteTick, gPendingCatchUpRecheck,
                 gNeedsOnlineInit, cacheFile, maFile>>

NextCapacity == FillSlots

SpecCapacity == InitCapacity /\ [][NextCapacity]_vars

\* The first k elements of a sequence (all of them when it is shorter).
FirstOf(seq, k) == SubSeq(seq, 1, IF Len(seq) < k THEN Len(seq) ELSE k)

\* The slots the entries of a list stand for, in input order: those of the
\* Nord Pool entries that carry a price for the area, every Tibber item, and
\* the stored slots with a start time.
NordPoolSlots ==
  LET kept == SelectSeq(CapacityEntries(ev.keys[1], ev.keys[2]), LAMBDA e : e.area)
  IN [i \in 1..Len(kept) |->
        [startsAt |-> utcIsoToLocalIsoSlot(kept[i].deliveryStart),
         price |-> applyCustomPriceFormula(kept[i].price), level |-> "UNKNOWN"]]
TibberSlots ==
  [i \in 1..ev.keys[1] |->
     [startsAt |-> CapacityStamp(i), price |-> tibber_applyCustomPriceFormula(4000 + i),
      level |-> "NORMAL"]]
StoredSlots ==
  SelectSeq(CapacityStored(ev.keys[1], ev.keys[2]), LAMBDA p : p.startsAt.len > 0)

\* C32: no price state holds more than 60 slots: each normalizer and the
\* snapshot loader keep the slots already held and the first entries of the
\* input, in input order, up to 60 slots in all, and drop the rest without
\* touching the error message.
C32_CapacityKeepsFirstSixty ==
  ev.handler = "capacity" =>
    /\ Count(gState) <= kMaxPoints /\ Count(ev.held) <= kMaxPoints
    /\ Count(ev.fetched) <= kMaxPoints
    /\ gState.points
         = ev.renderHeld.points \o FirstOf(NordPoolSlots, kMaxPoints - Count(ev.renderHeld))
    /\ ev.held.points
         = ev.renderHeld.points \o FirstOf(TibberSlots, kMaxPoints - Count(ev.renderHeld))
    /\ ev.fetched.points = FirstOf(StoredSlots, kMaxPoints)
    /\ gState.error = "" /\ ev.held.error = "" /\ ev.fetched.error = ""

\* C32 witness: 65 entries came in on an empty state: 60 slots are held, the
\* last of them the 61st entry's for Nord Pool (the second was skipped) and
\* the 60th entry's for Tibber.
C32_Witness ==
  /\ ev.handler = "capacity" /\ ev.keys = <<65, 2>> /\ Count(ev.renderHeld) = 0
  /\ Count(gState) = kMaxPoints /\ Count(ev.held) = kMaxPoints
  /\ Count(ev.fetched) = kMaxPoints
  /\ gState.points[kMaxPoints].startsAt = CapacityStamp(61)
  /\ ev.held.points[kMaxPoints].startsAt = CapacityStamp(60)
  /\ ev.fetched.points[kMaxPoints].startsAt = CapacityStamp(61)

\* ------------------------------------------------------------ one fetch
\* fetchNordPoolPriceInfo run once: with WiFi up or down, the clock set or
\* not, every pair of answers to the two requests (failure, no content, a
\* document without entries, one slot, both slots of the day), and a store
\* file that is absent, holds samples older than the slots fetched, or holds
\* no sample or samples around zero and a last key later than every slot
\* fetched.
FetchKinds ==
  {Failed, NoContent, Empty} \cup {Partial(4000)} \cup {Full(raw) : raw \in FetchRawPrices}
FetchAnswers == {Answer(a, b) : a \in FetchKinds, b \in FetchKinds}
FetchFiles ==
  {NoFile,
   FileOf(StoredRecord(<<Day0 - 1, 23>>, 2, 2, 60)),
   FileOf(StoredRecord(<<Day0 + 9, 23>>, 0, 0, 60)),
   FileOf([StoredRecord(<<Day0 + 9, 23>>, 2, 2, 60) EXCEPT !.values = <<0, 0>>]),
   FileOf([StoredRecord(<<Day0 + 9, 23>>, 2, 2, 60) EXCEPT !.values = <<50, 150>>])}

InitFetch ==
  /\ pc = "fetch"
  /\ now \in FetchTimes
  /\ bootAt = now
  /\ clock = "synced"
  /\ wifi \in BOOLEAN
  /\ ticks = 0
  /\ boots = 1
  /\ gState = PriceState
  /\ gLastFetchMs = 0
  /\ gNextDailyFetch = 0
  /\ gLastMinuteTick = 0
  /\ gPendingCatchUpRecheck = FALSE
  /\ gNeedsOnlineInit = FALSE
  /\ cacheFile = NoFile
  /\ maFile \in FetchFiles
  /\ ev = NoEvents

\* The fetch fills the buffer (gState here) and may rewrite the store file;
\* ev keeps the answers of the upstream and the store file as it was.
FetchOnce ==
  /\ pc = "fetch"
  /\ pc' = "fetched"
  /\ \E resp \in FetchAnswers :
       /\ gState' = fetchNordPoolPriceInfo(resp, nordpoolResolutionMinutes, wifi, now, maFile).out
       /\ maFile' = fetchNordPoolPriceInfo(resp, nordpoolResolutionMinutes, wifi, now, maFile).file
       /\ ev' = [NoEvents EXCEPT !.handler = "fetch", !.fetches = 1, !.answer = resp,
                                 !.heldStore = maFile]
  /\ UNCHANGED <<now, bootAt, clock, wifi, ticks, boots, gLastFetchMs,
                 gNextDailyFetch, gLastMinuteTick, gPendingCatchUpRecheck,
                 gNeedsOnlineInit, cacheFile>>

NextFetch == FetchOnce

SpecFetch == InitFetch /\ [][NextFetch]_vars

\* The requests were made: WiFi is up and the clock passes the fetch's test.
FetchRequested == ev.handler = "fetch" /\ wifi /\ now >= 1700000000

\* The number of slots an answer carries.
SlotsIn(k) == IF k.status = "ok" THEN k.n ELSE 0

\* The start times and prices of the slots of the answer k for the date day.
SlotsOfAnswer(k, day) ==
  [i \in 1..SlotsIn(k) |->
     <<IsoStr(day, SlotHours[i], 0), applyCustomPriceFormula(k.raw)>>]
StampsAndPrices(state) ==
  [i \in 1..Count(state) |-> <<state.points[i].startsAt, state.points[i].price>>]

\* C33: when the request for today yields at least one slot and the request
\* for tomorrow returns no content or fails, the result is ok, holds every
\* slot of today and has an empty error message; whenever the request for
\* today is answered and a slot is obtained from either request the result
\* is ok, and a result that is a failure holds no slot.
C33_DegradedFetchTolerated ==
  FetchRequested =>
    /\ (SlotsIn(ev.answer.today) >= 1 /\ ev.answer.tomorrow.status \in {"nocontent", "fail"})
         => /\ gState.ok /\ gState.error = ""
            /\ StampsAndPrices(gState) = SlotsOfAnswer(ev.answer.today, DayOf(now))
    /\ (ev.answer.today.status # "fail"
         /\ SlotsIn(ev.answer.today) + SlotsIn(ev.answer.tomorrow) >= 1)
         => gState.ok /\ gState.error = ""
    /\ ~gState.ok => Count(gState) = 0

\* C33 witness: today gave both slots, the request for tomorrow failed, and
\* the result is ok with the two slots and no error.
C33_Witness ==
  /\ FetchRequested
  /\ ev.answer = Answer(Full(4000), Failed)
  /\ gState.ok /\ Count(gState) = Len(SlotHours) /\ gState.error = ""

\* ------------------------------------------------------------ the order of the slots
\* A fetch whose first request is answered with hourly entries in
\* chronological order, each hour once, and whose second request has no
\* content; the state fetched is saved as a snapshot and loaded again.  The
\* delivery hours are those around midnight of day 0, around the start of
\* summer time and around its end.
OrderHours ==
  {<<MkTime(Day0, 0, 0, 0), MkTime(Day0, 1, 0, 0), MkTime(Day0, 2, 0, 0),
     MkTime(Day0, 3, 0, 0)>>,
   <<DstStart - 2 * HourSec, DstStart - HourSec, DstStart, DstStart + HourSec>>,
   <<DstEnd - 2 * HourSec, DstEnd - HourSec, DstEnd, DstEnd + HourSec>>}
\* The increasing sublists of a list of instants.
Sublists(hours) ==
  {SelectSeq(hours, LAMBDA t : t \in pick) : pick \in SUBSET {hours[i] : i \in 1..Len(hours)}}
OrderLists == UNION {Sublists(hours) : hours \in OrderHours}
\* "YYYY-MM-DDTHH:MM:SSZ" of an instant.
UtcIsoOf(t) == IsoStr(t \div DaySec, (t % DaySec) \div HourSec, (t % HourSec) \div 60)
OrderEntries(list) ==
  [i \in 1..Len(list) |-> [deliveryStart |-> UtcIsoOf(list[i]), price |-> 4000 + i,
                           area |-> TRUE]]

InitOrder ==
  /\ pc = "order"
  /\ now \in {MkTime(Day0, 12, 0, 0), DstEnd - 12 * HourSec, DstEnd + 12 * HourSec}
  /\ bootAt = now
  /\ clock = "synced"
  /\ wifi = TRUE
  /\ ticks = 0
  /\ boots = 1
  /\ gState = PriceState
  /\ gLastFetchMs = 0
  /\ gNextDailyFetch = 0
  /\ gLastMinuteTick = 0
  /\ gPendingCatchUpRecheck = FALSE
  /\ gNeedsOnlineInit = FALSE
  /\ cacheFile = NoFile
  /\ maFile \in {NoFile, FileOf(StoredRecord(<<Day0 - 1, 23>>, 2, 2, 60))}
  /\ ev = NoEvents

\* The fetch from its first addPoints on, then applyFetchedState's save and a
\* lenient load of what was saved: gState is the state fetched, fetched the
\* state loaded, keys the delivery hours of the entries.
FetchSaveLoad ==
  /\ pc = "order"
  /\ pc' = "loaded"
  /\ \E list \in OrderLists :
       \E f \in {fetchClassify(
                   addPoints(OrderEntries(list),
                             [PriceState EXCEPT !.source = "NORDPOOL",
                                                !.resolutionMinutes = nordpoolResolutionMinutes]),
                   maFile, now)} :
         /\ gState' = f.out
         /\ maFile' = f.file
         /\ cacheFile' = priceCacheSave(f.out, cacheFile).file
         /\ ev' = [NoEvents EXCEPT
                     !.handler = "order", !.fetches = 1, !.keys = list,
                     !.fetched = priceCacheLoadIfAvailable(
                                   activeSourceLabel,
                                   priceCacheSave(f.out, cacheFile).file, now).out]
  /\ UNCHANGED <<now, bootAt, clock, wifi, ticks, boots, gLastFetchMs,
                 gNextDailyFetch, gLastMinuteTick, gPendingCatchUpRecheck,
                 gNeedsOnlineInit>>

NextOrder == FetchSaveLoad

SpecOrder == InitOrder /\ [][NextOrder]_vars

\* The slot key of slot i of a state.
SlotKey(state, i) == intervalKeyFromIso(state.points[i].startsAt, state.resolutionMinutes)

SortedByKey(state) ==
  \A i \in 1..(Count(state) - 1) : KeyLeq(SlotKey(state, i), SlotKey(state, i + 1))
NoDuplicateKeys(state) ==
  \A i \in 1..Count(state), j \in 1..Count(state) :
    i # j => SlotKey(state, i) # SlotKey(state, j)

\* C34 as stated: a state with ok = true, fetched or loaded from the
\* snapshot, has at least one slot, is sorted by slot key and holds no two
\* slots with the same slot key.
C34_OkStateSortedAndUnique ==
  ev.handler = "order" =>
    \A state \in {gState, ev.fetched} :
      state.ok => Count(state) >= 1 /\ SortedByKey(state) /\ NoDuplicateKeys(state)

\* What holds of the same states: they have at least one slot and are sorted
\* by slot key, and two slots share a key only when the entries hold both the
\* last hour of summer time and the first hour after it.
C34_SortedUniqueOutsideDstEnd ==
  ev.handler = "order" =>
    \A state \in {gState, ev.fetched} :
      state.ok =>
        /\ Count(state) >= 1 /\ SortedByKey(state)
        /\ (\A i \in 1..(Len(ev.keys) - 1) :
              ~(ev.keys[i] = DstEnd - HourSec /\ ev.keys[i + 1] = DstEnd))
             => NoDuplicateKeys(state)

\* The two hours around the end of summer time were fetched, and the state
\* fetched and the state loaded hold two slots with the same key.
C34_DstEndRepeatsKey ==
  /\ ev.handler = "order"
  /\ ev.keys = <<DstEnd - HourSec, DstEnd>>
  /\ gState.ok /\ ev.fetched.ok
  /\ SlotKey(gState, 1) = SlotKey(gState, 2)
  /\ SlotKey(ev.fetched, 1) = SlotKey(ev.fetched, 2)

\* ------------------------------------------------------------ the current slot of the held state
\* The current index points into the slots and the current fields are copies
\* of the slot it points to.
CurrentConsistent(state) ==
  /\ state.currentIndex \in 0..(Count(state) - 1)
  /\ state.currentStartsAt = state.points[state.currentIndex + 1].startsAt
  /\ state.currentLevel = state.points[state.currentIndex + 1].level
  /\ state.currentPrice = state.points[state.currentIndex + 1].price

\* A loop iteration that ran the minute tick and made no fetch, on a held
\* state that is ok and has no slot for the current slot key.
TickWithoutMatch ==
  /\ ev'.handler = "loop" /\ ev'.reselects = 1 /\ ev'.fetches = 0
  /\ gState.ok /\ Count(gState) > 0
  /\ findCurrentPricePointIndex(gState, nordpoolResolutionMinutes, now) < 0

\* C35: in every reachable held state that is ok the current index lies in
\* [0, count) and the current timestamp, tier and price are those of the slot
\* at the current index; a minute tick on which no slot matches the current
\* slot key leaves the index and these fields (the whole held state) as they
\* were.
C35_CurrentSlotConsistent ==
  /\ [](gState.ok => CurrentConsistent(gState))
  /\ [][TickWithoutMatch => gState' = gState]_vars

\* C35 witness: the minute tick ran on a held state without a slot for the
\* current hour, nothing was redrawn, and the current index is still 0.
C35_Witness ==
  /\ ev.handler = "loop" /\ ev.reselects = 1 /\ ev.fetches = 0 /\ ev.draws = 0
  /\ gState.ok /\ gState.currentIndex = 0
  /\ findCurrentPricePointIndex(gState, nordpoolResolutionMinutes, now) < 0

\* ------------------------------------------------------------ the two shapes of a fetch result
FetchSuccess(state) == state.ok /\ Count(state) >= 1 /\ state.error = ""
FetchFailure(state) ==
  ~state.ok /\ Count(state) = 0 /\ state.currentIndex = -1 /\ state.error # ""

\* C36: every result of fetchNordPoolPriceInfo is a success (ok, at least
\* one slot, empty error message) or a failure (not ok, no slot, no current
\* index, a non-empty error message), whatever the upstream answers and
\* whether or not WiFi is up and the clock is set.
C36_FetchResultShape ==
  ev.handler = "fetch" => FetchSuccess(gState) \/ FetchFailure(gState)

\* C36 witness: today had no content and the request for tomorrow failed:
\* the result is a failure carrying the error of that request.
C36_Witness ==
  /\ FetchRequested
  /\ ev.answer = Answer(NoContent, Failed)
  /\ FetchFailure(gState) /\ gState.error = "HTTP GET failed"

\* ------------------------------------------------------------ the running average of a fetched state
\* The store as the fetch left it: the file it wrote, or else the store it
\* started from.
StoreAfterFetch == IF maFile # ev.heldStore THEN maFile.data ELSE StoreIn(ev.heldStore)

\* C37: after a successful fetch the state has its running-average flag
\* set and a running average above 0.0001, which is the default of 1.0 when
\* the history is empty or its mean is at most 0.0001 and the mean otherwise;
\* no slot of the state has the tier UNKNOWN.
C37_RunningAverageSet ==
  (ev.handler = "fetch" /\ gState.ok) =>
    /\ gState.hasRunningAverage
    /\ gState.runningAverage > kMinMovingAverage
    /\ gState.runningAverage
         = (IF StoreAfterFetch.count = 0
               \/ movingAverageValue(StoreAfterFetch) <= kMinMovingAverage
            THEN kDefaultMovingAverageKrPerKwh
            ELSE movingAverageValue(StoreAfterFetch))
    /\ \A i \in 1..Count(gState) : gState.points[i].level # "UNKNOWN"
    /\ gState.currentLevel # "UNKNOWN"

\* C37 witness: the slots fetched have a negative price and the history held
\* nothing before, so its mean is negative: the running average is the
\* default and the slots have a tier.
C37_Witness ==
  /\ FetchRequested /\ gState.ok
  /\ ev.heldStore = NoFile
  /\ StoreAfterFetch.count > 0 /\ movingAverageValue(StoreAfterFetch) < 0
  /\ gState.runningAverage = kDefaultMovingAverageKrPerKwh
  /\ gState.points[1].level = "VERY_CHEAP"

\* ------------------------------------------------------------ the source of the snapshot
\* C38: the persisted snapshot always carries the provider's source
\* identifier, never the offline label written onto the held state, and the
\* snapshot a boot finds passes the source check of its load.
C38_SnapshotKeepsSource ==
  cacheFile.exists =>
    /\ cacheFile.data.source = activeSourceLabel
    /\ cacheFile.data.source # "no wifi"
    /\ pc = "boot" => priceCacheLoadIfAvailable(activeSourceLabel, cacheFile, TimeOf(clock)).ok

\* C38 witness: the second boot came up without WiFi, loaded the snapshot
\* the first run had saved and labelled the held state "no wifi"; the
\* snapshot still names the provider.
C38_Witness ==
  /\ ev.handler = "setup" /\ boots = 2
  /\ gState.ok /\ gState.source = "no wifi"
  /\ cacheFile.exists /\ cacheFile.data.source = activeSourceLabel

\* ------------------------------------------------------------ a stale snapshot
\* The device comes up on day 2, at or after the fetch time, with the files
\* an earlier run left on day 0 or on day 1 (or none), and runs setup and
\* loop iterations with WiFi and the clock coming and going.
StaleDay == Day0 + 2
StaleTimes == {MkTime(StaleDay, 13, 0, 0), MkTime(StaleDay, 13, 10, 0)}
\* The snapshot and the store file a fetch with answer resp left at 13:00 of day d.
FilesLeftBy(resp, d) ==
  [cache |-> priceCacheSave(
               fetchNordPoolPriceInfo(resp, nordpoolResolutionMinutes, TRUE,
                                      MkTime(d, 13, 0, 0), NoFile).out, NoFile).file,
   store |-> fetchNordPoolPriceInfo(resp, nordpoolResolutionMinutes, TRUE,
                                    MkTime(d, 13, 0, 0), NoFile).file]
StaleRuns ==
  {[cache |-> NoFile, store |-> NoFile]}
    \cup {FilesLeftBy(resp, d) :
            resp \in {Answer(Full(4000), Full(4000)), Answer(Full(4000), NoContent)},
            d \in {Day0, Day0 + 1}}

InitStale ==
  /\ pc = "boot"
  /\ now \in StaleTimes
  /\ bootAt = now
  /\ clock = "unset"
  /\ wifi = FALSE
  /\ ticks = 0
  /\ boots = 1
  /\ gState = PriceState
  /\ gLastFetchMs = 0
  /\ gNextDailyFetch = 0
  /\ gLastMinuteTick = 0
  /\ gPendingCatchUpRecheck = FALSE
  /\ gNeedsOnlineInit = FALSE
  /\ \E run \in StaleRuns : cacheFile = run.cache /\ maFile = run.store
  /\ ev = NoEvents

NextStale == Setup \/ Loop \/ WifiLost \/ SntpSync

SpecStale == InitStale /\ [][NextStale]_vars

\* The state holds a slot whose key is the current slot key.
CoversNow(state) == findCurrentPricePointIndex(state, nordpoolResolutionMinutes, now) >= 0

\* A daily trigger fetched a state with a slot for the current slot key while
\* the held state had none.
FresherFetched ==
  /\ ev.handler = "loop" /\ ev.daily
  /\ ev.fetched.ok /\ CoversNow(ev.fetched)
  /\ ~CoversNow(ev.held)

\* C39 as stated: when a daily-trigger fetch succeeds with a slot covering
\* the current slot key while no slot of the held state covers it, the
\* fetched result is the held state after that iteration.
C39_StaleDataReplaced ==
  FresherFetched => gState = ev.fetched

\* What holds: the fetched result replaces the held state unless it has
\* fewer slots or fewer days than the held state, and then the held state
\* stays as it was.
C39_StaleReplacedUnlessFewer ==
  FresherFetched =>
    IF wouldReduceCoverage(ev.fetched, ev.held)
    THEN gState = ev.held
    ELSE gState = ev.fetched

\* The held state of day 0 and day 1 was kept on day 2 although the fetch
\* brought the slots of day 2.
C39_StaleKept ==
  /\ FresherFetched
  /\ Count(ev.held) = 2 * Len(SlotHours) /\ Count(ev.fetched) = Len(SlotHours)
  /\ gState = ev.held /\ ~CoversNow(gState)
  /\ gNextDailyFetch = now + kRetryDailyIfUnchangedSec

====
